---------------------------- MODULE Spec2Model ----------------------------
(***************************************************************************)
(* A model of yt-tracker's extract_data.py: the artist-name matcher, the   *)
(* year parser, the two deduplication passes, the chart-event filter, the  *)
(* discovery of best-of artists, the editorial extraction, the loaders of  *)
(* the artist pages and scraped birthdays, and the birthday fusion of      *)
(* main().                                                                 *)
(*                                                                         *)
(* Texts are TLA+ strings, read one character at a time with SubSeq.  A    *)
(* Python value that may be None is a sequence of length 0 (None) or 1     *)
(* (the value); a Python dict is a function whose DOMAIN is its key set.   *)
(* TLA+ strings are ASCII, so the four non-ASCII characters the source     *)
(* names are written with the stand-ins EnDash, EmDash, LQuote, RQuote.    *)
(***************************************************************************)
EXTENDS Integers, Sequences, FiniteSets, TLC

VARIABLES
    pc,               \* the position of the run being modelled
    TRACKED_ARTISTS,  \* extract_data.TRACKED_ARTISTS (a module global)
    SHORT_NAMES,      \* extract_data.SHORT_NAMES (a module global)
    ARTIST_PATTERNS,  \* extract_data.ARTIST_PATTERNS (a module global)
    text,             \* match_artist: the text argument
    strict,           \* match_artist: the strict argument
    matched,          \* match_artist: the value returned
    year_val,         \* parse_year: the argument
    year_out,         \* parse_year: the value returned
    events,           \* main: the local events
    videos,           \* main: the local videos
    before,           \* events and videos as they were before the last step
    sheet,            \* the rows of the editorial schedule workbook
    bestof_artists,   \* main: the local bestof_artists, in dict order
    birthdays,        \* main: the local birthdays
    artist_pages,     \* main: the local artist_pages, in dict order
    scraped,          \* main: the local scraped
    still_missing,    \* main: the local still_missing
    seen_birthdays,   \* main: the local seen_birthdays
    entry,            \* main: the scraped entry of the merge loop
    csv_file,         \* scrape_birthdays: the lines of the files, by path
    artist_rows,      \* scrape_birthdays.main: the local artists
    output_rows,      \* scrape_birthdays.main: the local output_rows
    run,              \* scrape_birthdays: the number of the run of main
    lookups,          \* the calls of find_artist_info main made in this run
    lookup,           \* find_artist_info: its position and its locals
    returned,         \* find_artist_info: the value returned, None before
    calls             \* the calls find_artist_info made to the knowledge base

rosterVars == <<TRACKED_ARTISTS, SHORT_NAMES, ARTIST_PATTERNS>>
matchVars == <<text, strict, matched>>
yearVars == <<year_val, year_out>>
listVars == <<events, videos, before>>
fusionVars ==
    <<sheet, bestof_artists, birthdays, artist_pages, scraped, still_missing,
      seen_birthdays, entry>>
scrapeVars == <<csv_file, artist_rows, output_rows, run, lookups>>
resolveVars == <<lookup, returned, calls>>
vars ==
    <<pc, rosterVars, matchVars, yearVars, listVars, fusionVars, scrapeVars,
      resolveVars>>

---------------------------------------------------------------------------
(* Python values and strings *)

None == <<>>
Some(x) == <<x>>

EnDash == "^"   \* stands for U+2013
EmDash == "~"   \* stands for U+2014
LQuote == "{"   \* stands for U+2018
RQuote == "}"   \* stands for U+2019

Ch(s, i) == SubSeq(s, i, i)

\* s[i:] with a 0-based i, as Python slices
Drop(s, i) == SubSeq(s, i + 1, Len(s))

\* s[:n]
Take(s, n) == SubSeq(s, 1, IF n < Len(s) THEN n ELSE Len(s))

\* s.startswith(p)
StartsWith(s, p) == Len(p) <= Len(s) /\ SubSeq(s, 1, Len(p)) = p

\* p in s
Contains(s, p) ==
    \E i \in 1..(Len(s) - Len(p) + 1) : SubSeq(s, i, i + Len(p) - 1) = p

LowerCh(c) ==
    CASE c = "A" -> "a" [] c = "B" -> "b" [] c = "C" -> "c" [] c = "D" -> "d"
      [] c = "E" -> "e" [] c = "F" -> "f" [] c = "G" -> "g" [] c = "H" -> "h"
      [] c = "I" -> "i" [] c = "J" -> "j" [] c = "K" -> "k" [] c = "L" -> "l"
      [] c = "M" -> "m" [] c = "N" -> "n" [] c = "O" -> "o" [] c = "P" -> "p"
      [] c = "Q" -> "q" [] c = "R" -> "r" [] c = "S" -> "s" [] c = "T" -> "t"
      [] c = "U" -> "u" [] c = "V" -> "v" [] c = "W" -> "w" [] c = "X" -> "x"
      [] c = "Y" -> "y" [] c = "Z" -> "z" [] OTHER -> c

RECURSIVE Lower(_)
\* s.lower()
Lower(s) ==
    IF Len(s) <= 1 THEN LowerCh(s)
    ELSE LET h == Len(s) \div 2 IN
         Lower(SubSeq(s, 1, h)) \o Lower(SubSeq(s, h + 1, Len(s)))

\* the least element of a non-empty set of positions
Least(S) == CHOOSE i \in S : \A j \in S : i <= j

\* the regular expression class \s
IsSpace(c) == c \in {" ", "\t", "\n", "\r", "\f"}

RECURSIVE LStrip(_)
LStrip(s) == IF s # "" /\ IsSpace(Ch(s, 1)) THEN LStrip(Drop(s, 1)) ELSE s

RECURSIVE RStrip(_)
RStrip(s) ==
    IF s # "" /\ IsSpace(Ch(s, Len(s)))
    THEN RStrip(SubSeq(s, 1, Len(s) - 1)) ELSE s

\* s.strip()
Strip(s) == RStrip(LStrip(s))

---------------------------------------------------------------------------
(* The roster and its patterns *)

BuiltinArtists == <<
    "Akon", "Amy Winehouse", "Andrea Bocelli", "Audioslave", "Beastie Boys",
    "Bee Gees", "Billy Idol", "Black Eyed Peas", "Bob Marley", "Bob Seger",
    "Bon Jovi", "Boyz II Men", "Carpenters", "Cat Stevens", "Chris Cornell",
    "Coldplay", "Common", "D'Angelo", "Def Leppard", "DMX", "Donna Summer",
    "Drake", "Ed Sheeran", "Elton John", "Elvis Costello", "Eminem",
    "Erykah Badu", "Fall Out Boy", "Frank Sinatra", "Frank Zappa",
    "Glen Campbell", "Godsmack", "Guns N' Roses", "Heart", "Janet Jackson",
    "Jeremih", "Jimmy Eat World", "Jodeci", "John Lennon", "John Mellencamp",
    "Johnny Cash", "Juvenile", "Kenny Rogers", "Keyshia Cole", "Kiss",
    "Lenny Kravitz", "Lionel Richie", "Little Big Town", "LL Cool J",
    "Mariah Carey", "Marvin Gaye", "Mary J. Blige", "Neil Diamond", "Nelly",
    "Nelly Furtado", "Nirvana", "OneRepublic", "Paul McCartney", "Peggy Lee",
    "Peter Frampton", "Queens of the Stone Age", "Ringo Starr",
    "Roger Hodgson", "Rush", "Sammy Davis Jr.", "Shania Twain",
    "Smashing Pumpkins", "Sonic Youth", "Soundgarden", "Spice Girls",
    "Sting", "Supertramp", "Taylor Swift", "The Beach Boys", "The Beatles",
    "The Black Crowes", "The Cranberries", "The Game", "The Rolling Stones",
    "The Who", "Toby Keith", "Tom Petty", "Trisha Yearwood", "U2", "Weezer" >>

BuiltinShortNames ==
    {"Heart", "Kiss", "Rush", "Sting", "Common", "U2", "DMX", "Nelly",
     "The Game", "Drake"}

\* One compiled pattern per roster entry, in roster order: the entry, whether
\* it was compiled as a short name, and the case-folded literal (IGNORECASE).
build_artist_patterns(artists, short) ==
    [i \in 1..Len(artists) |->
        [artist |-> artists[i],
         short |-> artists[i] \in short,
         needle |-> Lower(artists[i])]]

\* The lookbehind class [-–—,;:!(] of the short-name pattern
IsLeadPunct(c) == c \in {"-", EnDash, EmDash, ",", ";", ":", "!", "("}

\* The lookahead class [\s\-–—,;:!'").\]] of the short-name pattern
IsTrailChar(c) ==
    \/ IsSpace(c)
    \/ c \in {"-", EnDash, EmDash, ",", ";", ":", "!", "'", "\"", ")", ".", "]"}

\* pattern.search(text): low is text case-folded
PatternSearch(p, low) ==
    LET n == Len(p.needle) IN
    IF p.short
    THEN \E i \in 1..(Len(low) - n + 1) :
            /\ SubSeq(low, i, i + n - 1) = p.needle
            /\ \/ i = 1
               \/ IsSpace(Ch(low, i - 1))
               \/ IsLeadPunct(Ch(low, i - 1))
            /\ \/ i + n - 1 = Len(low)
               \/ IsTrailChar(Ch(low, i + n))
               \/ (i + n = Len(low) /\ Ch(low, i + n) = "\n")
    ELSE Contains(low, p.needle)

RECURSIVE SpaceRunEnd(_, _)
\* the 0-based offset at which the run of \s that starts at offset i ends
SpaceRunEnd(s, i) ==
    IF i < Len(s) /\ IsSpace(Ch(s, i + 1)) THEN SpaceRunEnd(s, i + 1) ELSE i

\* the pattern without its trailing \s*
BracketPrefixEnd_NoSpaces(s) ==
    IF ~StartsWith(s, "[") THEN None
    ELSE LET closes == {j \in 2..Len(s) : Ch(s, j) = "]"} IN
         IF closes = {} THEN None
         ELSE Some(CHOOSE k \in closes : \A l \in closes : k <= l)

\* re.match(r'\[.*?\]\s*', text): None, or m.end()
BracketPrefixEnd(s) ==
    IF ~StartsWith(s, "[") THEN None
    ELSE LET closes == {j \in 2..Len(s) : Ch(s, j) = "]"} IN
         IF closes = {} THEN None
         ELSE LET j == CHOOSE k \in closes : \A l \in closes : k <= l IN
              IF \E l \in 2..(j - 1) : Ch(s, l) = "\n" THEN None
              ELSE Some(SpaceRunEnd(s, j))

StrictPrefix == 60

\* the strict loop returns at a roster entry
StrictHit(t, artist) ==
    /\ \/ StartsWith(t, artist)
       \/ (StartsWith(t, "[") /\ Contains(Take(t, StrictPrefix), artist))
    /\ artist \in SHORT_NAMES =>
          \/ StartsWith(t, artist)
          \/ LET m == BracketPrefixEnd(t) IN
             m # None /\ StartsWith(Drop(t, m[1]), artist)

\* the strict loop without its branch for short names
StrictScan_NoShortCheck(t, i) ==
    LET hits == {k \in i..Len(TRACKED_ARTISTS) :
                    \/ StartsWith(t, TRACKED_ARTISTS[k])
                    \/ /\ StartsWith(t, "[")
                       /\ Contains(Take(t, StrictPrefix), TRACKED_ARTISTS[k])}
    IN  IF hits = {} THEN None ELSE Some(TRACKED_ARTISTS[Least(hits)])

\* the strict loop of match_artist, from roster entry i on: the first entry
\* at which it returns
StrictScan(t, i) ==
    LET hits == {k \in i..Len(TRACKED_ARTISTS) : StrictHit(t, TRACKED_ARTISTS[k])}
    IN  IF hits = {} THEN None ELSE Some(TRACKED_ARTISTS[Least(hits)])

\* the loose loop of match_artist, from pattern i on: the first pattern
\* that is found
LooseScan(low, i) ==
    LET hits == {k \in i..Len(ARTIST_PATTERNS) :
                    PatternSearch(ARTIST_PATTERNS[k], low)}
    IN  IF hits = {} THEN None ELSE Some(ARTIST_PATTERNS[Least(hits)].artist)

\* match_artist(text, strict): None, or the roster entry
match_artist(t, s) ==
    IF t = "" THEN None
    ELSE IF s THEN StrictScan(t, 1) ELSE LooseScan(Lower(t), 1)

---------------------------------------------------------------------------
(* parse_year *)

\* A year cell: None, an int n, a float n or n + 0.5 (n >= 0), or a string s.
YearCell(t, n, half, s) == [t |-> t, n |-> n, half |-> half, s |-> s]

YearMin == 1800
YearMax == 2026

IsDigit(c) == c \in {"0", "1", "2", "3", "4", "5", "6", "7", "8", "9"}

DigitVal(c) ==
    CASE c = "0" -> 0 [] c = "1" -> 1 [] c = "2" -> 2 [] c = "3" -> 3
      [] c = "4" -> 4 [] c = "5" -> 5 [] c = "6" -> 6 [] c = "7" -> 7
      [] c = "8" -> 8 [] c = "9" -> 9

\* int(m.group(1)) for the four digits that s starts with
FourDigits(s) ==
    DigitVal(Ch(s, 1)) * 1000 + DigitVal(Ch(s, 2)) * 100
        + DigitVal(Ch(s, 3)) * 10 + DigitVal(Ch(s, 4))

\* int(year_val): an int is itself, a float loses its fraction
IntOf(v) == v.n

YearInRange_UpperExclusive(y) ==
    IF YearMin <= y /\ y < YearMax THEN Some(y) ELSE None

\* y if 1800 <= y <= 2026 else None
YearInRange(y) == IF YearMin <= y /\ y <= YearMax THEN Some(y) ELSE None

parse_year(v) ==
    IF v.t = "none" THEN None
    ELSE IF v.t \in {"int", "float"} THEN YearInRange(IntOf(v))
    ELSE LET s == Strip(v.s) IN
         IF s \in {"", "N/A", "n/a", "TBC"} THEN None
         ELSE IF Len(s) >= 4 /\ \A i \in 1..4 : IsDigit(Ch(s, i))
              THEN YearInRange(FourDigits(s))
              ELSE None

---------------------------------------------------------------------------
(* deduplicate_events, deduplicate_videos *)

\* d.get(k)
Get(d, k) == IF k \in DOMAIN d THEN d[k] ELSE None

EventKey(e) == <<e.artist, e.month, e.day, Get(e, "origYear"), e.occasion>>

VideoKey(v) == <<v.artist, v.month, v.day, v.origYear, v.youtubeId>>

RECURSIVE DedupEventsLoop(_, _, _, _)
DedupEventsLoop(es, i, seen, deduped) ==
    IF i > Len(es) THEN deduped
    ELSE LET key == EventKey(es[i]) IN
         IF key \notin seen
         THEN DedupEventsLoop(es, i + 1, seen \cup {key}, Append(deduped, es[i]))
         ELSE DedupEventsLoop(es, i + 1, seen, deduped)

RECURSIVE DedupEventsToggleLoop(_, _, _, _)
DedupEventsToggleLoop(es, i, seen, deduped) ==
    IF i > Len(es) THEN deduped
    ELSE LET key == EventKey(es[i]) IN
         IF key \notin seen
         THEN DedupEventsToggleLoop(es, i + 1, seen \cup {key},
                                    Append(deduped, es[i]))
         ELSE DedupEventsToggleLoop(es, i + 1, seen \ {key}, deduped)

\* seen ^= {key} in place of seen.add(key)
deduplicate_events_Toggle(es) == DedupEventsToggleLoop(es, 1, {}, <<>>)

\* the last record of each key kept, in place of the first
deduplicate_events_KeepLast(es) ==
    SelectSeq([i \in 1..Len(es) |-> [at |-> i, e |-> es[i]]],
              LAMBDA r : \A j \in (r.at + 1)..Len(es) :
                            EventKey(es[j]) # EventKey(r.e))

deduplicate_events(es) == DedupEventsLoop(es, 1, {}, <<>>)

RECURSIVE DedupVideosLoop(_, _, _, _)
DedupVideosLoop(vs, i, seen, deduped) ==
    IF i > Len(vs) THEN deduped
    ELSE LET key == VideoKey(vs[i]) IN
         IF key \notin seen
         THEN DedupVideosLoop(vs, i + 1, seen \cup {key}, Append(deduped, vs[i]))
         ELSE DedupVideosLoop(vs, i + 1, seen, deduped)

deduplicate_videos(vs) == DedupVideosLoop(vs, 1, {}, <<>>)

---------------------------------------------------------------------------
(* extract_title, filter_chart_events *)

\* the class ['\u2018\u2019]
IsQuote(c) == c \in {"'", LQuote, RQuote}

\* re.search(r"['\u2018\u2019]([^'\u2018\u2019]+)['\u2018\u2019]", name):
\* None, or m.group(1).strip().lower()
extract_title(name) ==
    LET quotes == {i \in 1..Len(name) : IsQuote(Ch(name, i))}
        NextQuote(i) == CHOOSE j \in quotes : j > i /\ \A k \in quotes : k > i => j <= k
        starts == {i \in quotes : (\E j \in quotes : j > i) /\ NextQuote(i) > i + 1}
    IN  IF starts = {} THEN None
        ELSE LET i == CHOOSE k \in starts : \A l \in starts : k <= l IN
             Some(Lower(Strip(SubSeq(name, i + 1, NextQuote(i) - 1))))

\* Python's truth of a title: neither None nor ''
Truthy(title) == title # None /\ title[1] # ""

RECURSIVE CoverEvents(_, _, _)
\* the first loop: the titles of the events that are not chart events
CoverEvents(es, i, covered) ==
    IF i > Len(es) THEN covered
    ELSE LET e == es[i]
             title == extract_title(e.name) IN
         IF e.occasion # "Chart" /\ Truthy(title)
         THEN CoverEvents(es, i + 1, covered \cup {<<e.artist, title[1]>>})
         ELSE CoverEvents(es, i + 1, covered)

RECURSIVE CoverEventsAll(_, _, _)
\* the first loop without its test of the occasion
CoverEventsAll(es, i, covered) ==
    IF i > Len(es) THEN covered
    ELSE LET e == es[i]
             title == extract_title(e.name) IN
         IF Truthy(title)
         THEN CoverEventsAll(es, i + 1, covered \cup {<<e.artist, title[1]>>})
         ELSE CoverEventsAll(es, i + 1, covered)

RECURSIVE CoverVideos(_, _, _)
\* the second loop: the titles of the videos
CoverVideos(vs, i, covered) ==
    IF i > Len(vs) THEN covered
    ELSE CoverVideos(vs, i + 1,
                     covered \cup {<<vs[i].artist, Lower(Strip(vs[i].title))>>})

RECURSIVE FilterLoop(_, _, _, _)
FilterLoop(es, i, covered, filtered) ==
    IF i > Len(es) THEN filtered
    ELSE LET e == es[i]
             title == extract_title(e.name) IN
         IF e.occasion = "Chart" /\ Truthy(title)
                /\ <<e.artist, title[1]>> \in covered
         THEN FilterLoop(es, i + 1, covered, filtered)
         ELSE FilterLoop(es, i + 1, covered, Append(filtered, e))

RECURSIVE FilterAnyLoop(_, _, _, _)
\* the third loop without its test of the occasion
FilterAnyLoop(es, i, covered, filtered) ==
    IF i > Len(es) THEN filtered
    ELSE LET e == es[i]
             title == extract_title(e.name) IN
         IF Truthy(title) /\ <<e.artist, title[1]>> \in covered
         THEN FilterAnyLoop(es, i + 1, covered, filtered)
         ELSE FilterAnyLoop(es, i + 1, covered, Append(filtered, e))

filter_chart_events_AnyOccasion(es, vs) ==
    FilterAnyLoop(es, 1, CoverVideos(vs, 1, CoverEvents(es, 1, {})), <<>>)

filter_chart_events_SelfCover(es, vs) ==
    FilterLoop(es, 1, CoverVideos(vs, 1, CoverEventsAll(es, 1, {})), <<>>)

filter_chart_events(es, vs) ==
    FilterLoop(es, 1, CoverVideos(vs, 1, CoverEvents(es, 1, {})), <<>>)

---------------------------------------------------------------------------
(* parse_date_value, extract_editorial_events *)

\* re.match(r'(\d{4})-(\d{2})-(\d{2})', s): None, or the three integers
MatchYMD(s) ==
    IF /\ Len(s) >= 10
       /\ \A i \in {1, 2, 3, 4, 6, 7, 9, 10} : IsDigit(Ch(s, i))
       /\ Ch(s, 5) = "-"
       /\ Ch(s, 8) = "-"
    THEN Some([year |-> FourDigits(s),
               month |-> DigitVal(Ch(s, 6)) * 10 + DigitVal(Ch(s, 7)),
               day |-> DigitVal(Ch(s, 9)) * 10 + DigitVal(Ch(s, 10))])
    ELSE None

\* A date cell: None, a datetime of the given month and day, or a string s.
DateCell(t, month, day, s) == [t |-> t, month |-> month, day |-> day, s |-> s]

\* parse_date_value(date_val): None for (None, None), or the month and day
parse_date_value(v) ==
    IF v.t = "datetime" THEN Some([month |-> v.month, day |-> v.day])
    ELSE IF v.t = "str" /\ MatchYMD(v.s) # None
         THEN Some([month |-> MatchYMD(v.s)[1].month, day |-> MatchYMD(v.s)[1].day])
         ELSE None

\* A row of the editorial schedule, by the columns the code reads:
\* 0 name, 5 occasion, 10 feature link, 16 social asset, 21 year, 23 date.
Row(name, occasion, feat_link, social_asset, yearCell, dateCell) ==
    [name |-> name, occasion |-> occasion, feat_link |-> feat_link,
     social_asset |-> social_asset, year_val |-> yearCell, date_val |-> dateCell]

\* link if link and link not in ('', '...', 'None') else None
CleanLink(link) == IF link \in {"", "...", "None"} THEN None ELSE Some(link)

SkippedOccasions ==
    {"", "n/a", "news", "theme", "holiday", "other", "campaign"}

\* the loop in which a birthday row replaces the birthday already recorded
ExtractStep_LastBirthdayWins(row, es, bd) ==
    LET name == Strip(row.name)
        occasion == Strip(row.occasion)
        article_url == CleanLink(Strip(row.feat_link))
        social_url == CleanLink(Strip(row.social_asset))
        same == [events |-> es, birthdays |-> bd]
        md == parse_date_value(row.date_val)
        orig_year == parse_year(row.year_val)
        artist == match_artist(name, TRUE)
    IN  IF \/ name = "" \/ name = "Name"
           \/ row.date_val.t = "none"
           \/ (row.date_val.t = "str" /\ row.date_val.s = "")
        THEN same
        ELSE IF md = None \/ md[1].month = 0 \/ md[1].day = 0 THEN same
        ELSE IF artist = None THEN same
        ELSE IF Lower(occasion) = "birthday"
             THEN IF orig_year # None
                  THEN [events |-> es,
                        birthdays |->
                            (artist[1] :>
                                ([birthYear |-> orig_year[1],
                                  month |-> md[1].month, day |-> md[1].day]
                                 @@ (IF article_url # None
                                     THEN [articleUrl |-> article_url[1]]
                                     ELSE <<>>))) @@ bd]
                  ELSE same
        ELSE IF Lower(occasion) \in SkippedOccasions THEN same
        ELSE [events |->
                  Append(es,
                      [name |-> name, artist |-> artist[1],
                       occasion |-> occasion, origYear |-> orig_year,
                       month |-> md[1].month, day |-> md[1].day]
                      @@ (IF article_url # None
                          THEN [articleUrl |-> article_url[1]] ELSE <<>>)
                      @@ (IF social_url # None
                          THEN [socialAssetUrl |-> social_url[1]] ELSE <<>>)),
              birthdays |-> bd]

\* One pass of the loop of extract_editorial_events over row, from the
\* events es and the birthdays bd: the events and birthdays after it.
ExtractStep(row, es, bd) ==
    LET name == Strip(row.name)
        occasion == Strip(row.occasion)
        article_url == CleanLink(Strip(row.feat_link))
        social_url == CleanLink(Strip(row.social_asset))
        same == [events |-> es, birthdays |-> bd]
        md == parse_date_value(row.date_val)
        orig_year == parse_year(row.year_val)
        artist == match_artist(name, TRUE)
    IN  IF \/ name = "" \/ name = "Name"
           \/ row.date_val.t = "none"
           \/ (row.date_val.t = "str" /\ row.date_val.s = "")
        THEN same
        ELSE IF md = None \/ md[1].month = 0 \/ md[1].day = 0 THEN same
        ELSE IF artist = None THEN same
        ELSE IF Lower(occasion) = "birthday"
             THEN IF artist[1] \notin DOMAIN bd /\ orig_year # None
                  THEN [events |-> es,
                        birthdays |->
                            (artist[1] :>
                                ([birthYear |-> orig_year[1],
                                  month |-> md[1].month, day |-> md[1].day]
                                 @@ (IF article_url # None
                                     THEN [articleUrl |-> article_url[1]]
                                     ELSE <<>>))) @@ bd]
                  ELSE same
        ELSE IF Lower(occasion) \in SkippedOccasions THEN same
        ELSE [events |->
                  Append(es,
                      [name |-> name, artist |-> artist[1],
                       occasion |-> occasion, origYear |-> orig_year,
                       month |-> md[1].month, day |-> md[1].day]
                      @@ (IF article_url # None
                          THEN [articleUrl |-> article_url[1]] ELSE <<>>)
                      @@ (IF social_url # None
                          THEN [socialAssetUrl |-> social_url[1]] ELSE <<>>)),
              birthdays |-> bd]

---------------------------------------------------------------------------
(* main: the roster extension and the birthday fusion *)

\* an ordered dict d of [key, value] pairs: key in d, d[key]
HasKey(d, k) == \E i \in DOMAIN d : d[i].key = k
Lookup(d, k) == d[CHOOSE i \in DOMAIN d : d[i].key = k].value

Pair(k, v) == [key |-> k, value |-> v]

\* the dict d with d[f] = v set
SetField(d, f, v) == (f :> v) @@ d

\* 'udiscovermusic.com' in feat_link, for a link that is not a placeholder
IsArticleLink(link) ==
    CleanLink(link) # None /\ Contains(link, "udiscovermusic.com")

\* the ordered dict d after d[k] = v
Upsert(d, k, v) ==
    IF HasKey(d, k)
    THEN [i \in DOMAIN d |-> IF d[i].key = k THEN Pair(k, v) ELSE d[i]]
    ELSE Append(d, Pair(k, v))

---------------------------------------------------------------------------
(* discover_bestof_artists. Titles are single-line cell texts. *)

\* the case-folded literal w stands at position i of the case-folded low
At(low, i, w) ==
    i >= 1 /\ i + Len(w) - 1 <= Len(low) /\ SubSeq(low, i, i + Len(w) - 1) = w

\* the character at position i, or "" past either end
CharAt(s, i) == IF 1 <= i /\ i <= Len(s) THEN Ch(s, i) ELSE ""

\* (.+?) from position p, lazily: the text up to the first of the ends
\* e >= p after which the rest of the pattern matches; None when there is
\* none or p is 0
LazyGroup(name, p, ends) ==
    IF p = 0 \/ ends = {} THEN None
    ELSE Some(SubSeq(name, p, Least(ends)))

BestNouns ==
    {"songs", "albums", "tracks", "pieces", "performances",
     "vocal performances", "hits", "live albums", "collaborations",
     "deep cuts"}

\* Pattern 1: (?:The )?Best (.+?) (?:Songs|...)(?:\s*[:\-]|$)
Pattern1(name, low) ==
    LET p == IF At(low, 1, "the best ") THEN 10
             ELSE IF At(low, 1, "best ") THEN 6 ELSE 0
        Rest(q) == \E w \in BestNouns :
                      /\ At(low, q, " " \o w)
                      /\ LET r == q + Len(w) IN
                         \/ r = Len(low)
                         \/ CharAt(low, SpaceRunEnd(low, r) + 1) \in {":", "-"}
    IN  LazyGroup(name, p, {e \in p..Len(name) : Rest(e + 1)})

\* candidate.split(':')[-1]
AfterLastColon(s) ==
    LET colons == {i \in 1..Len(s) : Ch(s, i) = ":"} IN
    IF colons = {} THEN s
    ELSE SubSeq(s, (CHOOSE i \in colons : \A j \in colons : j <= i) + 1, Len(s))

\* Pattern 2: (.+?) In 20 (?:Songs|Quotes), with the candidate's clean-up
Pattern2(name, low) ==
    LET Rest(q) == At(low, q, " in 20 songs") \/ At(low, q, " in 20 quotes")
        m == LazyGroup(name, 1, {e \in 1..Len(name) : Rest(e + 1)})
    IN  IF m = None THEN None
        ELSE LET candidate == Strip(m[1]) IN
             IF Contains(candidate, ":") THEN Some(Strip(AfterLastColon(candidate)))
             ELSE Some(candidate)

\* Pattern 3: Essential (.+?)(?:\s+(?:Songs|Albums|Tracks|Guide))?\s*[:\-]
Pattern3(name, low) ==
    LET p == IF At(low, 1, "essential ") THEN 11 ELSE 0
        Closes(r) == CharAt(low, SpaceRunEnd(low, r) + 1) \in {":", "-"}
        Rest(q) ==
            \/ Closes(q - 1)
            \/ /\ SpaceRunEnd(low, q - 1) >= q
               /\ \E w \in {"songs", "albums", "tracks", "guide"} :
                     /\ At(low, SpaceRunEnd(low, q - 1) + 1, w)
                     /\ Closes(SpaceRunEnd(low, q - 1) + Len(w))
    IN  LazyGroup(name, p, {e \in p..Len(name) : Rest(e + 1)})

\* (?:Things You (?:Never |Didn.t )?Know|Facts) followed by a space, at
\* position i: 0, or the position after that space
Pattern4Head(low, i) ==
    IF At(low, i, "things you know ") THEN i + 16
    ELSE IF At(low, i, "things you never know ") THEN i + 22
    ELSE IF /\ At(low, i, "things you didn") /\ At(low, i + 16, "t know ")
            /\ CharAt(low, i + 15) \notin {"", "\n"}
         THEN i + 23
    ELSE IF At(low, i, "facts ") THEN i + 6
    ELSE 0

\* Pattern 4, searched: ... (?:About )?(.+?)(?:\.|$)
Pattern4(name, low) ==
    LET starts == {i \in 1..Len(low) :
                      Pattern4Head(low, i) # 0 /\ Pattern4Head(low, i) <= Len(low)}
    IN  IF starts = {} THEN None
        ELSE LET q == Pattern4Head(low, Least(starts))
                 p == IF At(low, q, "about ") /\ q + 6 <= Len(low)
                      THEN q + 6 ELSE q
                 Rest(r) == r = Len(low) + 1 \/ CharAt(low, r) = "."
             IN  LazyGroup(name, p, {e \in p..Len(name) : Rest(e + 1)})

\* Pattern 5: (?:The )?Greatest (.+?) (?:Songs|Albums|Hits)
Pattern5(name, low) ==
    LET p == IF At(low, 1, "the greatest ") THEN 14
             ELSE IF At(low, 1, "greatest ") THEN 10 ELSE 0
        Rest(q) == \E w \in {"songs", "albums", "hits"} : At(low, q, " " \o w)
    IN  LazyGroup(name, p, {e \in p..Len(name) : Rest(e + 1)})

\* m.group(1).strip() of a match that is tried only while artist is unset
Stripped(m) == IF m = None THEN None ELSE Some(Strip(m[1]))

\* a pattern's result leaves artist unset: no match, or an empty group
Unset(m) == m = None \/ m[1] = ""

\* the artist and score a title yields, or None
TitleArtist(name) ==
    LET low == Lower(name)
        m1 == Stripped(Pattern1(name, low))
        m2 == Pattern2(name, low)
        m3 == Stripped(Pattern3(name, low))
        m4 == Stripped(Pattern4(name, low))
        m5 == Stripped(Pattern5(name, low))
    IN  IF ~Unset(m1) THEN Some([artist |-> m1[1], score |-> 80])
        ELSE IF ~Unset(m2) THEN Some([artist |-> m2[1], score |-> 100])
        ELSE IF ~Unset(m3) THEN Some([artist |-> m3[1], score |-> 70])
        ELSE IF ~Unset(m4) THEN Some([artist |-> m4[1], score |-> 60])
        ELSE IF ~Unset(m5) THEN Some([artist |-> m5[1], score |-> 50])
        ELSE None

skip_words ==
    {"jazz", "rock", "pop", "soul", "blues", "country", "metal", "punk",
     "hip-hop", "hip hop", "r&b", "christmas", "halloween", "wedding",
     "workout", "summer", "winter", "spring", "fall", "80s", "90s", "70s",
     "60s", "of all time", "concept", "cover", "movie", "film", "festival",
     "brit", "new wave", "alternative", "indie", "latin", "classical",
     "motown", "electric guitar", "acoustic", "psychedelic", "protest",
     "one-hit", "debut", "romantic", "love", "sad", "happy", "karaoke",
     "breakup", "best of", "soundtrack", "duet", "reggae", "dance",
     "power ballad", "road trip", "driving", "running", "birthday",
     "july", "earth day", "thanksgiving", "hannukah", "biking",
     "homecoming", "graduation", "new jack swing", "glastonbury",
     "grammy", "woodstock", "def jam", "fania", "musart", "ecm",
     "solo piano", "ambient", "biopic", "break-up", "live album",
     "boy band", "girl group", "funk", "grunge", "emo", "opera",
     "k-pop", "disco", "synth", "gospel", "spoken word", "anime"}

MinArtistLen == 2
MaxArtistLen == 50

\* the tests that drop a generic or non-artist entry
SkippedArtist(artist) ==
    \/ \E w \in skip_words : Contains(Lower(artist), w)
    \/ (Len(artist) >= 4 /\ \A i \in 1..4 : IsDigit(Ch(artist, i)))
    \/ \A i \in 1..Len(artist) : IsDigit(Ch(artist, i)) \/ IsSpace(Ch(artist, i))
    \/ Len(artist) < MinArtistLen
    \/ Len(artist) > MaxArtistLen

\* d[k] = v if k is new or v scores higher than d[k]
KeepBest(d, k, v) ==
    IF ~HasKey(d, k) \/ v.score > Lookup(d, k).score THEN Upsert(d, k, v) ELSE d

RECURSIVE DiscoverRows(_, _, _)
\* results after the rows from i on
DiscoverRows(rows, i, results) ==
    IF i > Len(rows) THEN results
    ELSE LET name == Strip(rows[i].name)
             feat_link == Strip(rows[i].feat_link)
             m == TitleArtist(name)
         IN  IF ~IsArticleLink(feat_link) \/ m = None
             THEN DiscoverRows(rows, i + 1, results)
             ELSE IF SkippedArtist(m[1].artist)
                  THEN DiscoverRows(rows, i + 1, results)
                  ELSE DiscoverRows(rows, i + 1,
                           KeepBest(results, m[1].artist,
                                    [url |-> feat_link, score |-> m[1].score]))

canonical ==
    << Pair("Beach Boys", "The Beach Boys"),
       Pair("Mary J Blige", "Mary J. Blige"),
       Pair("Yusuf / Cat Stevens", "Cat Stevens"),
       Pair("Queen Of The Stone Age", "Queens of the Stone Age"),
       Pair("The Carpenters", "Carpenters") >>

RECURSIVE Canonicalize(_, _, _)
\* cleaned after the results from i on
Canonicalize(results, i, cleaned) ==
    IF i > Len(results) THEN cleaned
    ELSE LET artist == results[i].key
             canon == IF HasKey(canonical, artist) THEN Lookup(canonical, artist)
                      ELSE artist
         IN  Canonicalize(results, i + 1, KeepBest(cleaned, canon, results[i].value))

\* discover_bestof_artists(), over the rows of the sheet: an ordered dict
\* artist -> url
discover_bestof_artists(rows) ==
    LET cleaned == Canonicalize(DiscoverRows(rows, 1, <<>>), 1, <<>>) IN
    [i \in DOMAIN cleaned |-> Pair(cleaned[i].key, cleaned[i].value.url)]

\* the number of words of a.split() for a name without leading, trailing
\* or doubled whitespace
WordCount(a) == Cardinality({i \in 1..Len(a) : IsSpace(Ch(a, i))}) + 1

\* ExpandedRoster with the patterns left as compiled from the old roster
ExpandedRoster_StalePatterns(artists, short, bestof) ==
    LET new_artists ==
            SelectSeq([i \in DOMAIN bestof |-> bestof[i].key],
                      LAMBDA a : \A j \in DOMAIN artists : artists[j] # a)
        tracked == artists \o new_artists
        shorts == short \cup {new_artists[i] : i \in
                     {k \in DOMAIN new_artists :
                        WordCount(new_artists[k]) = 1 /\ Len(new_artists[k]) <= 5}}
    IN  [TRACKED_ARTISTS |-> tracked, SHORT_NAMES |-> shorts,
         ARTIST_PATTERNS |-> build_artist_patterns(artists, short)]

\* main, lines 542-550: the roster, short names and patterns after the
\* best-of artists were added
ExpandedRoster(artists, short, bestof) ==
    LET new_artists ==
            SelectSeq([i \in DOMAIN bestof |-> bestof[i].key],
                      LAMBDA a : \A j \in DOMAIN artists : artists[j] # a)
        tracked == artists \o new_artists
        shorts == short \cup {new_artists[i] : i \in
                     {k \in DOMAIN new_artists :
                        WordCount(new_artists[k]) = 1 /\ Len(new_artists[k]) <= 5}}
    IN  [TRACKED_ARTISTS |-> tracked, SHORT_NAMES |-> shorts,
         ARTIST_PATTERNS |-> build_artist_patterns(tracked, shorts)]

RECURSIVE AttachBestofLoop(_, _, _)
\* main, lines 576-579
AttachBestofLoop(bestof, i, bd) ==
    IF i > Len(bestof) THEN bd
    ELSE LET artist == bestof[i].key IN
         IF artist \in DOMAIN bd /\ "articleUrl" \notin DOMAIN bd[artist]
         THEN AttachBestofLoop(bestof, i + 1,
                  [bd EXCEPT ![artist] = SetField(@, "articleUrl", bestof[i].value)])
         ELSE AttachBestofLoop(bestof, i + 1, bd)

\* re.search(a + ' .*' + b, s), for the patterns of the second pass
ContainsThenLater(s, a, b) ==
    \E i \in 1..Len(s) : \E j \in (i + Len(a))..Len(s) :
        /\ j + Len(b) - 1 <= Len(s)
        /\ SubSeq(s, i, i + Len(a) - 1) = a
        /\ SubSeq(s, j, j + Len(b) - 1) = b
        /\ \A l \in (i + Len(a))..(j - 1) : Ch(s, l) # "\n"

\* main, lines 595-605: the score of a lower-cased title
TitleScore(name_lower) ==
    IF Contains(name_lower, "in 20 songs") \/ Contains(name_lower, "in 20 quotes")
    THEN 100
    ELSE IF ContainsThenLater(name_lower, "best ", " songs") THEN 80
    ELSE IF Contains(name_lower, "essential") THEN 70
    ELSE IF \/ Contains(name_lower, "things you never knew")
            \/ Contains(name_lower, "facts")
            \/ Contains(name_lower, "things you")
         THEN 60
    ELSE IF \E a \in {"best ", "greatest "} :
            \E b \in {"album", "track", "hit", "classic", "vocal", "live",
                       "performance"} : ContainsThenLater(name_lower, a, b)
         THEN 50
    ELSE 0

RECURSIVE BestArticles(_, _, _, _)
\* main, lines 587-607: best_articles after the rows from i on, as a
\* function artist -> [url, score]
BestArticles(rows, i, keys, best) ==
    IF i > Len(rows) THEN best
    ELSE LET name_lower == Lower(Strip(rows[i].name))
             feat_link == Strip(rows[i].feat_link)
             score == TitleScore(name_lower)
             hit == {a \in keys :
                        /\ Contains(name_lower, Lower(a))
                        /\ score > 0
                        /\ (a \notin DOMAIN best \/ score > best[a].score)}
         IN  IF ~IsArticleLink(feat_link)
             THEN BestArticles(rows, i + 1, keys, best)
             ELSE BestArticles(rows, i + 1, keys,
                      [a \in hit |-> [url |-> feat_link, score |-> score]] @@ best)

\* main, lines 611-614
AttachBestArticles(best, bd) ==
    [a \in DOMAIN bd |->
        IF a \in DOMAIN best /\ "articleUrl" \notin DOMAIN bd[a]
        THEN SetField(bd[a], "articleUrl", best[a].url)
        ELSE bd[a]]

\* artist_pages_lower: the url of the last page whose name folds to l
PagesLower(pages) ==
    LET at(l) == CHOOSE i \in DOMAIN pages :
                    /\ Lower(pages[i].key) = l
                    /\ \A j \in DOMAIN pages : Lower(pages[j].key) = l => j <= i
    IN  [l \in {Lower(pages[i].key) : i \in DOMAIN pages} |-> pages[at(l)].value]

page_name_aliases ==
    << Pair("2pac", "Tupac"),
       Pair("yusuf / cat stevens", "Cat Stevens"),
       Pair("yusuf/cat stevens", "Cat Stevens"),
       Pair("the carpenters", "Carpenters") >>

\* main, lines 634-646
AttachPagesTo(pages, bd) ==
    LET lower == PagesLower(pages)
        aliases(a) == {i \in DOMAIN page_name_aliases :
                         /\ page_name_aliases[i].value = a
                         /\ page_name_aliases[i].key \in DOMAIN lower}
        first(S) == CHOOSE i \in S : \A j \in S : i <= j
    IN  [a \in DOMAIN bd |->
            IF Lower(a) \in DOMAIN lower
            THEN SetField(bd[a], "artistPageUrl", lower[Lower(a)])
            ELSE IF aliases(a) # {}
                 THEN SetField(bd[a], "artistPageUrl",
                               lower[page_name_aliases[first(aliases(a))].key])
                 ELSE bd[a]]

DigitCh(d) == SubSeq("0123456789", d + 1, d + 1)

RECURSIVE Decimal(_)
\* the decimal digits of n >= 0
Decimal(n) == IF n < 10 THEN DigitCh(n) ELSE Decimal(n \div 10) \o DigitCh(n % 10)

RECURSIVE ZeroPad(_, _)
ZeroPad(s, w) == IF Len(s) >= w THEN s ELSE ZeroPad("0" \o s, w)

\* f"{birthYear:04d}-{month:02d}-{day:02d}"
BirthdayString(info) ==
    ZeroPad(Decimal(info.birthYear), 4) \o "-" \o ZeroPad(Decimal(info.month), 2)
        \o "-" \o ZeroPad(Decimal(info.day), 2)

\* main, lines 669-672
SeedSeen(bd) == {<<Lower(a), BirthdayString(bd[a])>> : a \in DOMAIN bd}

\* f"{artist_name} -- {member_name}", the dash being U+2014
MemberKey(artist_name, member_name) ==
    artist_name \o " " \o EmDash \o " " \o member_name

\* main, lines 718-725: the page and the best-of article put on bd[key]
AttachToNew(bd, key, e, bestof) ==
    LET paged == IF e.artistPageUrl # "" /\ StartsWith(e.artistPageUrl, "http")
                 THEN [bd EXCEPT ![key] = SetField(@, "artistPageUrl", e.artistPageUrl)]
                 ELSE bd
    IN  IF HasKey(bestof, e.artistName) /\ Lookup(bestof, e.artistName) # ""
        THEN [paged EXCEPT ![key] =
                 SetField(@, "articleUrl", Lookup(bestof, e.artistName))]
        ELSE paged

\* the loop body without the test that leaves an existing solo entry alone
MergeStep_SoloOverwrites(e, bd, seen, bestof) ==
    LET m == MatchYMD(e.birthday)
        dedup_key == <<Lower(e.memberName), e.birthday>>
        is_band_member == e.memberName # "" /\ e.memberName # e.artistName
        key == IF is_band_member THEN MemberKey(e.artistName, e.memberName)
               ELSE e.artistName
        born == [birthYear |-> m[1].year, month |-> m[1].month, day |-> m[1].day]
    IN  IF m = None \/ dedup_key \in seen
        THEN [birthdays |-> bd, seen |-> seen]
        ELSE [birthdays |->
                 AttachToNew(
                     (key :> (IF is_band_member
                              THEN born @@ [bandName |-> e.artistName,
                                            memberName |-> e.memberName]
                              ELSE born)) @@ bd,
                     key, e, bestof),
              seen |-> seen \cup {dedup_key}]

\* One pass of the loop of main, lines 675-727, over the scraped entry e:
\* the birthdays and seen_birthdays after it.
MergeStep(e, bd, seen, bestof) ==
    LET m == MatchYMD(e.birthday)
        dedup_key == <<Lower(e.memberName), e.birthday>>
        is_band_member == e.memberName # "" /\ e.memberName # e.artistName
        key == IF is_band_member THEN MemberKey(e.artistName, e.memberName)
               ELSE e.artistName
        born == [birthYear |-> m[1].year, month |-> m[1].month, day |-> m[1].day]
    IN  IF m = None \/ dedup_key \in seen
        THEN [birthdays |-> bd, seen |-> seen]
        ELSE IF is_band_member
             THEN [birthdays |->
                      AttachToNew(
                          (key :> (born @@ [bandName |-> e.artistName,
                                            memberName |-> e.memberName])) @@ bd,
                          key, e, bestof),
                   seen |-> seen \cup {dedup_key}]
             ELSE IF key \in DOMAIN bd
                  THEN [birthdays |-> bd, seen |-> seen \cup {dedup_key}]
                  ELSE [birthdays |->
                           AttachToNew((key :> born) @@ bd, key, e, bestof),
                        seen |-> seen \cup {dedup_key}]

---------------------------------------------------------------------------
(* load_artist_pages, load_scraped_birthdays *)

\* A row of the artist pages file, by the columns the code reads.
PageRow(name, url) == [name |-> name, url |-> url]

RECURSIVE LoadPagesLoop(_, _, _)
LoadPagesLoop(rows, i, pages) ==
    IF i > Len(rows) THEN pages
    ELSE LET name == Strip(rows[i].name)
             url == Strip(rows[i].url)
         IN  IF name # "" /\ url # "" /\ StartsWith(url, "http")
             THEN LoadPagesLoop(rows, i + 1, Upsert(pages, name, url))
             ELSE LoadPagesLoop(rows, i + 1, pages)

\* load_artist_pages(), over the rows of the file: an ordered dict name -> url
load_artist_pages(rows) == LoadPagesLoop(rows, 1, <<>>)

\* A row of the scraped birthdays file, by the columns the code reads.
ScrapedRow(artist_name, member_name, page_url, birthday) ==
    [artist_name |-> artist_name, member_name |-> member_name,
     page_url |-> page_url, birthday |-> birthday]

RECURSIVE LoadScrapedLoop(_, _, _, _)
LoadScrapedLoop(rows, i, got, missing) ==
    IF i > Len(rows) THEN [scraped |-> got, still_missing |-> missing]
    ELSE LET artist_name == Strip(rows[i].artist_name)
             member_name == Strip(rows[i].member_name)
             page_url == Strip(rows[i].page_url)
             birthday == Strip(rows[i].birthday)
         IN  IF artist_name = "" THEN LoadScrapedLoop(rows, i + 1, got, missing)
             ELSE IF birthday # ""
                  THEN LoadScrapedLoop(rows, i + 1,
                           Append(got, [artistName |-> artist_name,
                                        memberName |-> member_name,
                                        artistPageUrl |-> page_url,
                                        birthday |-> birthday]),
                           missing)
                  ELSE LoadScrapedLoop(rows, i + 1, got,
                           Append(missing, <<artist_name, page_url>>))

\* load_scraped_birthdays(), over the rows of the file; a file that does
\* not exist reads as no rows
load_scraped_birthdays(rows) == LoadScrapedLoop(rows, 1, <<>>, <<>>)

\* main, lines 651-655: the artist page put on every event that has one
AttachEventPages(pages, es) ==
    LET lower == PagesLower(pages) IN
    [i \in DOMAIN es |->
        IF Lower(es[i].artist) \in DOMAIN lower
        THEN SetField(es[i], "artistPageUrl", lower[Lower(es[i].artist)])
        ELSE es[i]]

---------------------------------------------------------------------------
(* extract_music_videos *)

\* A row of the music videos file, by the columns the code reads.
VideoRow(artist_raw, title, youtube_id, views_str, date_str, date_type) ==
    [artist_raw |-> artist_raw, title |-> title, youtube_id |-> youtube_id,
     views_str |-> views_str, date_str |-> date_str, date_type |-> date_type]

RECURSIVE NoCommas(_)
\* s.replace(',', '')
NoCommas(s) ==
    IF s = "" THEN ""
    ELSE (IF Ch(s, 1) = "," THEN "" ELSE Take(s, 1)) \o NoCommas(Drop(s, 1))

RECURSIVE DigitsValue(_, _)
\* the value of the digits of s, underscores skipped, after the value acc
DigitsValue(s, acc) ==
    IF s = "" THEN acc
    ELSE IF Ch(s, 1) = "_" THEN DigitsValue(Drop(s, 1), acc)
    ELSE DigitsValue(Drop(s, 1), acc * 10 + DigitVal(Ch(s, 1)))

\* int(s): None for ValueError. An int literal is an optional sign and
\* digits, single underscores allowed between digits, whitespace around.
IntOfStr(s) ==
    LET t == Strip(s)
        signed == t # "" /\ Ch(t, 1) \in {"+", "-"}
        d == IF signed THEN Drop(t, 1) ELSE t
        wellFormed ==
            /\ d # ""
            /\ \A i \in 1..Len(d) : IsDigit(Ch(d, i)) \/ Ch(d, i) = "_"
            /\ IsDigit(Ch(d, 1))
            /\ IsDigit(Ch(d, Len(d)))
            /\ \A i \in 1..(Len(d) - 1) : ~(Ch(d, i) = "_" /\ Ch(d, i + 1) = "_")
    IN  IF ~wellFormed THEN None
        ELSE IF signed /\ Ch(t, 1) = "-" THEN Some(0 - DigitsValue(d, 0))
        ELSE Some(DigitsValue(d, 0))

\* views: 0 unless views_str is an int once its commas are removed
ParseViews(views_str) ==
    IF views_str = "" \/ IntOfStr(NoCommas(views_str)) = None THEN 0
    ELSE IntOfStr(NoCommas(views_str))[1]

\* title.split(' - ', 1)[1] if ' - ' in title
AfterFirstDash(title) ==
    LET at == {i \in 1..(Len(title) - 2) : SubSeq(title, i, i + 2) = " - "} IN
    IF at = {} THEN title ELSE SubSeq(title, Least(at) + 3, Len(title))

SuffixWords ==
    {"official", "remastered", "audio", "lyric", "music", "video",
     "visualizer", "live", "hd", "4k", "hq", "dir:"}

\* \((?:Official|...|Dir:)[^)]*\) matches from the parenthesis at j: 0, or
\* the position of the parenthesis that closes it
SuffixClose(s, low, j) ==
    LET closes == {c \in (j + 1)..Len(s) : Ch(s, c) = ")"} IN
    IF Ch(s, j) # "(" \/ closes = {} THEN 0
    ELSE IF \E w \in SuffixWords :
               At(low, j + 1, w) /\ j + Len(w) < Least(closes)
         THEN Least(closes)
         ELSE 0

RECURSIVE WithoutSuffixes(_)
\* re.sub(r'\s*\((?:Official|...|Dir:)[^)]*\)', '', s, flags=re.IGNORECASE)
WithoutSuffixes(s) ==
    LET low == Lower(s)
        opens == {j \in 1..Len(s) : SuffixClose(s, low, j) # 0}
    IN  IF opens = {} THEN s
        ELSE LET j == Least(opens)
                 blanks == {i \in 1..j : \A k \in i..(j - 1) : IsSpace(Ch(s, k))}
             IN  SubSeq(s, 1, Least(blanks) - 1)
                     \o WithoutSuffixes(SubSeq(s, SuffixClose(s, low, j) + 1, Len(s)))

RECURSIVE ExtractVideosLoop(_, _, _)
\* videos after the rows from i on
ExtractVideosLoop(rows, i, vs) ==
    IF i > Len(rows) THEN vs
    ELSE LET artist_raw == Strip(rows[i].artist_raw)
             title == Strip(rows[i].title)
             date_str == Strip(rows[i].date_str)
             artist == match_artist(artist_raw, FALSE)
             m == MatchYMD(date_str)
         IN  IF artist_raw = "" \/ date_str = "" THEN ExtractVideosLoop(rows, i + 1, vs)
             ELSE IF artist = None \/ m = None THEN ExtractVideosLoop(rows, i + 1, vs)
             ELSE ExtractVideosLoop(rows, i + 1,
                      Append(vs,
                          [artist |-> artist[1],
                           title |-> Strip(WithoutSuffixes(AfterFirstDash(title))),
                           youtubeId |-> Strip(rows[i].youtube_id),
                           views |-> ParseViews(Strip(rows[i].views_str)),
                           dateType |-> Strip(rows[i].date_type),
                           origYear |-> m[1].year,
                           month |-> m[1].month,
                           day |-> m[1].day]))

\* extract_music_videos(), over the rows of the file
extract_music_videos(rows) == ExtractVideosLoop(rows, 1, <<>>)

---------------------------------------------------------------------------
(* scrape_birthdays: the entity helpers *)

\* An entity of the structured knowledge base, by the claims the code reads:
\* the ids of P31, the time strings of P569, the parts of P527 with whether
\* the claim carries a P582 qualifier, and the English label if any.
Entity(P31, P569, P527, label) ==
    [P31 |-> P31, P569 |-> P569, P527 |-> P527, label |-> label]

\* One P527 claim: the id of the part ("" when the snak has none) and
\* whether 'P582' is among its qualifiers
Part(id, has_end) == [id |-> id, has_end |-> has_end]

\* wikidata_get_label: None without an English label
wikidata_get_label(entity) == entity.label

\* wikidata_get_birth_date: the YYYY-MM-DD of the first P569 claim, None
\* when there is none, when it does not match or when month or day is 00
wikidata_get_birth_date(entity) ==
    IF entity.P569 = <<>> THEN None
    ELSE LET time_str == entity.P569[1]
             t == IF StartsWith(time_str, "+") THEN Drop(time_str, 1) ELSE time_str
         IN  IF MatchYMD(t) = None THEN None
             ELSE IF SubSeq(t, 6, 7) = "00" \/ SubSeq(t, 9, 10) = "00" THEN None
             ELSE Some(SubSeq(t, 1, 10))

\* wikidata_is_human
wikidata_is_human(entity) == \E i \in DOMAIN entity.P31 : entity.P31[i] = "Q5"

band_types == {"Q215380", "Q2088357", "Q5741069", "Q4438121"}

\* wikidata_is_band
wikidata_is_band(entity) == \E i \in DOMAIN entity.P31 : entity.P31[i] \in band_types

MAX_BAND_MEMBERS == 3

\* wikidata_get_members taking the first members in claim order
wikidata_get_members_ClaimOrder(entity) ==
    LET claimed == SelectSeq(entity.P527, LAMBDA c : c.id # "")
        filled == Take(claimed, MAX_BAND_MEMBERS)
    IN  [i \in DOMAIN filled |-> filled[i].id]

\* wikidata_get_members
wikidata_get_members(entity) ==
    LET claimed == SelectSeq(entity.P527, LAMBDA c : c.id # "")
        current == SelectSeq(claimed, LAMBDA c : ~c.has_end)
        former == SelectSeq(claimed, LAMBDA c : c.has_end)
        result == Take(current, MAX_BAND_MEMBERS)
        filled == IF Len(result) < MAX_BAND_MEMBERS
                  THEN result \o Take(former, MAX_BAND_MEMBERS - Len(result))
                  ELSE result
    IN  [i \in DOMAIN filled |-> filled[i].id]

---------------------------------------------------------------------------
(* scrape_birthdays: extract_birthday_from_html *)

\* the regular expression class \w, for ASCII text
IsWordCh(c) ==
    \/ IsDigit(c)
    \/ c = "_"
    \/ LowerCh(c) \in {"a", "b", "c", "d", "e", "f", "g", "h", "i", "j", "k", "l",
                       "m", "n", "o", "p", "q", "r", "s", "t", "u", "v", "w", "x",
                       "y", "z"}

\* the position after the run of \w that starts at position i
WordEnd(s, i) == Least({j \in i..(Len(s) + 1) : ~IsWordCh(CharAt(s, j))})

\* the position after the run of \s that starts at position i
SpaceEnd(s, i) == Least({j \in i..(Len(s) + 1) : ~IsSpace(CharAt(s, j))})

\* the length of what \d{1,2} takes at position i
DayDigits(s, i) ==
    IF ~IsDigit(CharAt(s, i)) THEN 0
    ELSE IF IsDigit(CharAt(s, i + 1)) THEN 2 ELSE 1

\* \d{4} at position i
FourDigitsAt(s, i) == \A j \in i..(i + 3) : IsDigit(CharAt(s, j))

\* re.search(r'class="bday">(\d{4}-\d{2}-\d{2})<', html): group 1 or None
BdayClass(html) ==
    LET tag == "class=\"bday\">"
        at == {i \in 1..Len(html) :
                 /\ At(html, i, tag)
                 /\ i + Len(tag) + 10 <= Len(html)
                 /\ MatchYMD(SubSeq(html, i + Len(tag), i + Len(tag) + 9)) # None
                 /\ Ch(html, i + Len(tag) + 10) = "<"}
    IN  IF at = {} THEN None
        ELSE Some(SubSeq(html, Least(at) + Len(tag), Least(at) + Len(tag) + 9))

RECURSIVE StripTags(_)
\* re.sub(r'<[^>]+>', ' ', html)
StripTags(html) ==
    LET closeOf(i) == Least({c \in (i + 1)..Len(html) : Ch(html, c) = ">"})
        opens == {i \in 1..Len(html) :
                    /\ Ch(html, i) = "<"
                    /\ \E c \in (i + 1)..Len(html) : Ch(html, c) = ">"
                    /\ closeOf(i) >= i + 2}
    IN  IF opens = {} THEN html
        ELSE SubSeq(html, 1, Least(opens) - 1) \o " "
                 \o StripTags(SubSeq(html, closeOf(Least(opens)) + 1, Len(html)))

\* (\w+)\s+(\d{1,2}),?\s+(\d{4}) at position w: the three groups, or None
MonthDayYearAt(s, w) ==
    LET we == WordEnd(s, w)
        d == SpaceEnd(s, we)
        n == DayDigits(s, d)
        c == IF CharAt(s, d + n) = "," THEN d + n + 1 ELSE d + n
        y == SpaceEnd(s, c)
    IN  IF we > w /\ d > we /\ n > 0 /\ y > c /\ FourDigitsAt(s, y)
        THEN Some([month |-> SubSeq(s, w, we - 1), day |-> SubSeq(s, d, d + n - 1),
                   year |-> SubSeq(s, y, y + 3)])
        ELSE None

\* (\d{1,2})\s+(\w+)\s+(\d{4}) at position w: the three groups, or None
DayMonthYearAt(s, w) ==
    LET n == DayDigits(s, w)
        m == SpaceEnd(s, w + n)
        me == WordEnd(s, m)
        y == SpaceEnd(s, me)
    IN  IF n > 0 /\ m > w + n /\ me > m /\ y > me /\ FourDigitsAt(s, y)
        THEN Some([month |-> SubSeq(s, m, me - 1), day |-> SubSeq(s, w, w + n - 1),
                   year |-> SubSeq(s, y, y + 3)])
        ELSE None

MaxBornGap == 40

\* born[^)]{0,40}? : the positions at which the rest of the pattern may
\* start, as b * (MaxBornGap + 1) + k for a "born" at b and a gap of k
BornGaps(s) ==
    LET low == Lower(s) IN
    UNION {{b * (MaxBornGap + 1) + k :
                k \in {g \in 0..MaxBornGap :
                         \A j \in (b + 4)..(b + 3 + g) : CharAt(s, j) \notin {"", ")"}}} :
           b \in {i \in 1..Len(s) : At(low, i, "born")}}

\* the position that follows "born" at b and a gap of k
AfterGap(code) == (code \div (MaxBornGap + 1)) + 4 + (code % (MaxBornGap + 1))

MonthNumber(w) ==
    CASE w = "january" -> "01" [] w = "february" -> "02" [] w = "march" -> "03"
      [] w = "april" -> "04" [] w = "may" -> "05" [] w = "june" -> "06"
      [] w = "july" -> "07" [] w = "august" -> "08" [] w = "september" -> "09"
      [] w = "october" -> "10" [] w = "november" -> "11" [] w = "december" -> "12"
      [] OTHER -> ""

\* f"{year}-{months[month.lower()]}-{int(day):02d}" for the groups of a
\* match, None when the month group is not the name of a month
BornDate(g) ==
    IF MonthNumber(Lower(g.month)) = "" THEN None
    ELSE Some(g.year \o "-" \o MonthNumber(Lower(g.month)) \o "-"
                  \o (IF Len(g.day) = 1 THEN "0" \o g.day ELSE g.day))

\* the first pattern over the text: the date of the match found, or None
BornMonthFirst(s) ==
    LET hits == {c \in BornGaps(s) : MonthDayYearAt(s, AfterGap(c)) # None} IN
    IF hits = {} THEN None ELSE BornDate(MonthDayYearAt(s, AfterGap(Least(hits)))[1])

\* the second pattern over the text: the date of the match found, or None
BornDayFirst(s) ==
    LET hits == {c \in BornGaps(s) : DayMonthYearAt(s, AfterGap(c)) # None} IN
    IF hits = {} THEN None ELSE BornDate(DayMonthYearAt(s, AfterGap(Least(hits)))[1])

\* extract_birthday_from_html
extract_birthday_from_html(html) ==
    IF BdayClass(html) # None THEN BdayClass(html)
    ELSE IF BornMonthFirst(StripTags(html)) # None THEN BornMonthFirst(StripTags(html))
    ELSE BornDayFirst(StripTags(html))

---------------------------------------------------------------------------
(* scrape_birthdays: the calls to the knowledge base *)

\* What a call does: it returns a value or it raises.
Returned(v) == [raised |-> FALSE, value |-> v]
Raised == [raised |-> TRUE]

\* What wiki_fetch does with a request: it raises (a transport error, a
\* body that is not JSON), or it returns the data of the response, which is
\* the answer of the knowledge base or an answer with nothing in it.
Outcomes == {"answer", "empty", "fail"}

wiki_fetch(answer, nothing, outcome) ==
    CASE outcome = "fail" -> Raised
      [] outcome = "empty" -> Returned(nothing)
      [] outcome = "answer" -> Returned(answer)

\* wiki_search, on data[1] of the response
wiki_search(resp) ==
    IF resp.raised THEN Returned(<<>>) ELSE Returned(resp.value)

\* wiki_get_wikidata_id, on the wikibase_item of the pages of the response,
\* "" for a page without one
wiki_get_wikidata_id(resp) ==
    IF resp.raised THEN Returned(None)
    ELSE LET has == {i \in DOMAIN resp.value : resp.value[i] # ""} IN
         IF has = {} THEN Returned(None)
         ELSE Returned(Some(resp.value[Least(has)]))

\* wikidata_get_entity, on the entities of the response, as pairs of an id
\* and an entity
wikidata_get_entity(entity_id, resp) ==
    IF resp.raised THEN Returned(None)
    ELSE IF HasKey(resp.value, entity_id)
    THEN Returned(Some(Lookup(resp.value, entity_id)))
    ELSE Returned(None)

\* wiki_get_page_html without its try: the exception of wiki_fetch leaves it
wiki_get_page_html_NoCatch(resp) ==
    IF resp.raised THEN Raised ELSE Returned(resp.value)

\* wiki_get_page_html, on the text of the response
wiki_get_page_html(resp) ==
    IF resp.raised THEN Returned("") ELSE Returned(resp.value)

\* One call as find_artist_info saw it: the function, its argument, the
\* title being examined, whether the call was for a member of a group, what
\* wiki_fetch did, and what the function gave back.
Call(fn, arg, title, member, outcome, result) ==
    [fn |-> fn, arg |-> arg, title |-> title, member |-> member,
     outcome |-> outcome, result |-> result]

---------------------------------------------------------------------------
(* The pages of the knowledge base *)

\* the text of the page of a title
KBHtml(title) ==
    CASE title = "Prince (musician)" ->
             "<td>Born<br/><span class=\"bday\">1958-06-07</span></td>"
      [] title = "Sade (band)" ->
             "<p><b>Sade</b> (born Helen Adu; 16 January 1959) leads</p>"
      [] title = "Sade (singer)" -> "<p>Sade was born in Ibadan.</p>"
      [] title = "Ronnie James Dio" -> "<p>Born July 10, 1942</p>"
      [] OTHER -> ""

KBTitles ==
    {"Prince (musician)", "Sade (band)", "Sade (singer)", "Ronnie James Dio",
     "Elton John"}

\* extract_birthday_from_html over the pages of the knowledge base and the
\* empty page, computed once
PageBirthdays ==
    [html \in {KBHtml(t) : t \in KBTitles} \cup {""} |->
        extract_birthday_from_html(html)]

---------------------------------------------------------------------------
(* scrape_birthdays: find_artist_info *)

\* find_artist_info(name) as entered: about to make search number n
Activation(name) ==
    [at |-> "search", n |-> 1, name |-> name, results |-> <<>>, tried |-> 0,
     wdid |-> "", entity |-> None, member_ids |-> <<>>, mid |-> 0,
     members |-> <<>>]

\* no call of find_artist_info in progress
NoLookup == [Activation("") EXCEPT !.at = "idle"]

\* SearchQuery with the band search before the musician search
SearchQuery_BandFirst(name, n) ==
    CASE n = 1 -> name
      [] n = 2 -> name \o " band"
      [] n = 3 -> name \o " musician"

\* the query of search number n (lines 192-196)
SearchQuery(name, n) ==
    CASE n = 1 -> name
      [] n = 2 -> name \o " musician"
      [] n = 3 -> name \o " band"

MaxCandidates == 3

\* results[:3]
Candidates(l) == Take(l.results, MaxCandidates)

\* the title of the loop of lines 200-252
Title(l) == l.results[l.tried]

\* return members, note
Return(l, members, note) ==
    [lookup |-> [l EXCEPT !.at = "returned"],
     returned |-> Some([members |-> members, note |-> note])]

\* the function goes on, at the position given
GoOn(l) == [lookup |-> l, returned |-> None]

\* an exception leaves find_artist_info
Propagate(l) == [lookup |-> [l EXCEPT !.at = "raised"], returned |-> None]

\* continue: the next title of results[:3], or line 254
Continue(l) ==
    IF l.tried < Len(Candidates(l))
    THEN GoOn([l EXCEPT !.tried = @ + 1, !.at = "wikidata_id"])
    ELSE Return(l, <<>>, "no date in any result")

\* lines 192-198, after the search that gave r
AfterSearch(l, r) ==
    IF r.raised THEN Propagate(l)
    ELSE IF r.value # <<>>
    THEN Continue([l EXCEPT !.results = r.value])
    ELSE IF l.n < 3 THEN GoOn([l EXCEPT !.n = @ + 1])
    ELSE Return(l, <<>>, "no Wikipedia page")

\* lines 201-203
AfterWikidataId(l, r) ==
    IF r.raised THEN Propagate(l)
    ELSE IF r.value = None THEN Continue(l)
    ELSE GoOn([l EXCEPT !.wdid = r.value[1], !.at = "entity"])

Member(member, birthday) == [member |-> member, birthday |-> birthday]

\* lines 205-226 and 246-247, after the entity fetch that gave r
AfterEntity(l, r) ==
    IF r.raised THEN Propagate(l)
    ELSE IF r.value = None THEN Continue(l)
    ELSE LET entity == r.value[1]
             bday == wikidata_get_birth_date(entity)
             found == [l EXCEPT !.entity = r.value]
         IN  IF wikidata_is_human(entity)
             THEN IF bday # None
                  THEN Return(found, <<Member(l.name, bday[1])>>,
                              "solo (" \o Title(l) \o ")")
                  ELSE GoOn([found EXCEPT !.at = "page_html"])
             ELSE IF wikidata_is_band(entity)
             THEN IF wikidata_get_members(entity) = <<>>
                  THEN Return(found, <<>>,
                              "band, no members listed (" \o Title(l) \o ")")
                  ELSE GoOn([found EXCEPT
                                !.member_ids = wikidata_get_members(entity),
                                !.mid = 1, !.at = "member"])
             ELSE IF bday # None
                  THEN Return(found, <<Member(l.name, bday[1])>>,
                              "other (" \o Title(l) \o ")")
                  ELSE GoOn([found EXCEPT !.at = "page_html"])

\* lines 215-218 and 250-252 with a human candidate going on to the next
\* title when no birthday was found
WithBirthday_HumanContinues(l, bday) ==
    IF bday # None
    THEN Return(l, <<Member(l.name, bday[1])>>,
                (IF wikidata_is_human(l.entity[1]) THEN "solo (" ELSE "other (")
                    \o Title(l) \o ")")
    ELSE Continue(l)

\* lines 215-218 and 250-252: what follows the fallback that gave bday
WithBirthday(l, bday) ==
    IF wikidata_is_human(l.entity[1])
    THEN IF bday # None
         THEN Return(l, <<Member(l.name, bday[1])>>, "solo (" \o Title(l) \o ")")
         ELSE Return(l, <<>>, "solo, no date (" \o Title(l) \o ")")
    ELSE IF bday # None
         THEN Return(l, <<Member(l.name, bday[1])>>, "other (" \o Title(l) \o ")")
         ELSE Continue(l)

\* lines 213-218 and 248-252, after the page fetch that gave r
AfterPageHtml(l, r) ==
    IF r.raised THEN Propagate(l)
    ELSE WithBirthday(l, IF r.value # "" THEN PageBirthdays[r.value] ELSE None)

\* the members after the body of the loop of lines 228-240 when the fetch
\* of the entity of the member gave r; an exception in the body is caught
MembersWith(l, r) ==
    IF r.raised \/ r.value = None THEN l.members
    ELSE LET m_entity == r.value[1]
             m_name == IF wikidata_get_label(m_entity) # None
                       THEN wikidata_get_label(m_entity)[1]
                       ELSE l.member_ids[l.mid]
             m_bday == wikidata_get_birth_date(m_entity)
         IN  IF wikidata_is_human(m_entity) /\ m_bday # None
             THEN Append(l.members, Member(m_name, m_bday[1]))
             ELSE l.members

\* AfterMember with a group without member birthdays left for the next title
AfterMember_NoBirthdaysContinues(l, r) ==
    LET members == MembersWith(l, r) IN
    IF l.mid < Len(Take(l.member_ids, MAX_BAND_MEMBERS))
    THEN GoOn([l EXCEPT !.members = members, !.mid = @ + 1])
    ELSE IF members # <<>>
    THEN Return([l EXCEPT !.members = members], members,
                "band with " \o Decimal(Len(members)) \o "/"
                    \o Decimal(MAX_BAND_MEMBERS) \o " members ("
                    \o Title(l) \o ")")
    ELSE Continue(l)

\* lines 228-244, after the fetch of the entity of member number mid
AfterMember(l, r) ==
    LET members == MembersWith(l, r) IN
    IF l.mid < Len(Take(l.member_ids, MAX_BAND_MEMBERS))
    THEN GoOn([l EXCEPT !.members = members, !.mid = @ + 1])
    ELSE IF members # <<>>
    THEN Return([l EXCEPT !.members = members], members,
                "band with " \o Decimal(Len(members)) \o "/"
                    \o Decimal(MAX_BAND_MEMBERS) \o " members ("
                    \o Title(l) \o ")")
    ELSE Return(l, <<>>, "band, no member birthdays (" \o Title(l) \o ")")

---------------------------------------------------------------------------
(* SpecMatch: match_artist applied to texts assembled from fragments *)

MaxFragments == 3

Fragments ==
    {"Heart", "Kiss", "Elton John", "Cold, Cold ", "The band ",
     "[2024-05-01] ", " released a new album", " announces tour",
     " is great",
     "[Premiere of the 40th anniversary deluxe box set edition] "}

RosterInit ==
    /\ TRACKED_ARTISTS = BuiltinArtists
    /\ SHORT_NAMES = BuiltinShortNames
    /\ ARTIST_PATTERNS = build_artist_patterns(BuiltinArtists, BuiltinShortNames)

MatchIdle == text = "" /\ strict = FALSE /\ matched = None

YearIdle == year_val = YearCell("none", 0, FALSE, "") /\ year_out = None

ListIdle ==
    /\ events = <<>>
    /\ videos = <<>>
    /\ before = [events |-> <<>>, videos |-> <<>>]

Scraped(artistName, memberName, artistPageUrl, birthday) ==
    [artistName |-> artistName, memberName |-> memberName,
     artistPageUrl |-> artistPageUrl, birthday |-> birthday]

FusionIdle ==
    /\ sheet = <<>>
    /\ bestof_artists = <<>>
    /\ birthdays = <<>>
    /\ artist_pages = <<>>
    /\ scraped = <<>>
    /\ still_missing = <<>>
    /\ seen_birthdays = {}
    /\ entry = Scraped("", "", "", "")

ScrapeIdle ==
    /\ csv_file = <<>>
    /\ artist_rows = <<>>
    /\ output_rows = <<>>
    /\ run = 0
    /\ lookups = <<>>

ResolveIdle ==
    /\ lookup = NoLookup
    /\ returned = None
    /\ calls = <<>>

InitMatch ==
    /\ pc = <<"compose", 0>>
    /\ RosterInit
    /\ ScrapeIdle
    /\ ResolveIdle
    /\ text = ""
    /\ strict \in BOOLEAN
    /\ matched = None
    /\ YearIdle
    /\ ListIdle
    /\ FusionIdle

\* the caller assembles the text it is about to resolve
Compose ==
    /\ pc[1] = "compose"
    /\ pc[2] < MaxFragments
    /\ \E f \in Fragments : text' = text \o f
    /\ pc' = <<"compose", pc[2] + 1>>
    /\ UNCHANGED <<rosterVars, strict, matched, yearVars, listVars, fusionVars,
                   scrapeVars, resolveVars>>

MatchArtist ==
    /\ pc[1] = "compose"
    /\ matched' = match_artist(text, strict)
    /\ pc' = <<"matched", pc[2]>>
    /\ UNCHANGED <<rosterVars, text, strict, yearVars, listVars, fusionVars,
                   scrapeVars, resolveVars>>

NextMatch == Compose \/ MatchArtist

SpecMatch == InitMatch /\ [][NextMatch]_vars

---------------------------------------------------------------------------
(* SpecYear: parse_year applied to numeric and string cells *)

MaxYearFragments == 2

YearFragments ==
    {"2024", "1899", "1799", "2027", "TBC", "N/A", "n/a", " ", "5", "x"}

RECURSIVE Concats(_, _)
\* the strings made of at most n fragments of F
Concats(F, n) ==
    IF n = 0 THEN {""}
    ELSE LET S == Concats(F, n - 1) IN S \cup {s \o f : s \in S, f \in F}

YearProbe ==
    ((YearMin - 2)..(YearMin + 1)) \cup {1899, 2024}
        \cup ((YearMax - 1)..(YearMax + 2)) \cup {0}

YearInputs ==
    {YearCell("none", 0, FALSE, "")}
        \cup {YearCell("int", y, FALSE, "") : y \in YearProbe \cup {-1}}
        \cup {YearCell("float", y, h, "") : y \in YearProbe, h \in BOOLEAN}
        \cup {YearCell("str", 0, FALSE, s) :
                 s \in Concats(YearFragments, MaxYearFragments)}

InitYear ==
    /\ pc = <<"year", 0>>
    /\ RosterInit
    /\ ScrapeIdle
    /\ ResolveIdle
    /\ MatchIdle
    /\ year_val \in YearInputs
    /\ year_out = None
    /\ ListIdle
    /\ FusionIdle

ParseYear ==
    /\ pc[1] = "year"
    /\ year_out' = parse_year(year_val)
    /\ pc' = <<"parsed", 0>>
    /\ UNCHANGED <<rosterVars, matchVars, year_val, listVars, fusionVars,
                   scrapeVars, resolveVars>>

NextYear == ParseYear

SpecYear == InitYear /\ [][NextYear]_vars

---------------------------------------------------------------------------
(* SpecLists: main's deduplication and chart filtering of extracted lists *)

MaxEvents == 3
MaxVideos == 2

Url1 == "https://www.udiscovermusic.com/stories/one"
Url2 == "https://www.udiscovermusic.com/stories/two"

Event(name, artist, occasion, origYear, month, day) ==
    [name |-> name, artist |-> artist, occasion |-> occasion,
     origYear |-> origYear, month |-> month, day |-> day]

Video(artist, title, youtubeId, views) ==
    [artist |-> artist, title |-> title, youtubeId |-> youtubeId,
     views |-> views, dateType |-> "Release", origYear |-> 1983,
     month |-> 2, day |-> 26]

EventSamples ==
    {Event("Kiss: 'Thriller' tops the chart", "Kiss", "Chart",
           Some(1983), 2, 26) @@ [articleUrl |-> Url1],
     Event("Kiss - 'Thriller' hits No. 1", "Kiss", "Chart",
           Some(1983), 2, 26) @@ [articleUrl |-> Url2, socialAssetUrl |-> Url1],
     Event("Kiss release {Thriller }", "Kiss", "Album Release",
           Some(1983), 2, 26),
     Event("Kiss enter the chart", "Kiss", "Chart", None, 3, 1),
     Event("Kiss: ' ' charts", "Kiss", "Chart", None, 3, 1),
     Event("Heart: 'Thriller' charts", "Heart", "Chart", Some(1983), 2, 26)}

VideoSamples ==
    {Video("Kiss", " thriller", "yt1", 10),
     Video("Kiss", "Thriller (Live)", "yt1", 20),
     Video("Kiss", "", "yt2", 0)}

RECURSIVE SeqsUpTo(_, _)
\* the sequences of at most n elements of S
SeqsUpTo(S, n) ==
    IF n = 0 THEN {<<>>}
    ELSE LET T == SeqsUpTo(S, n - 1) IN T \cup {Append(t, x) : t \in T, x \in S}

InitLists ==
    /\ pc = <<"extracted", 0>>
    /\ RosterInit
    /\ ScrapeIdle
    /\ ResolveIdle
    /\ MatchIdle
    /\ YearIdle
    /\ events \in SeqsUpTo(EventSamples, MaxEvents)
    /\ videos \in SeqsUpTo(VideoSamples, MaxVideos)
    /\ before = [events |-> <<>>, videos |-> <<>>]
    /\ FusionIdle

DedupEvents ==
    /\ pc[1] = "extracted"
    /\ events' = deduplicate_events(events)
    /\ before' = [events |-> events, videos |-> videos]
    /\ pc' = <<"events_deduped", 0>>
    /\ UNCHANGED <<rosterVars, matchVars, yearVars, videos, fusionVars,
                   scrapeVars, resolveVars>>

DedupVideos ==
    /\ pc[1] = "events_deduped"
    /\ videos' = deduplicate_videos(videos)
    /\ before' = [events |-> events, videos |-> videos]
    /\ pc' = <<"videos_deduped", 0>>
    /\ UNCHANGED <<rosterVars, matchVars, yearVars, events, fusionVars,
                   scrapeVars, resolveVars>>

FilterChart ==
    /\ pc[1] = "videos_deduped"
    /\ events' = filter_chart_events(events, videos)
    /\ before' = [events |-> events, videos |-> videos]
    /\ pc' = <<"filtered", 0>>
    /\ UNCHANGED <<rosterVars, matchVars, yearVars, videos, fusionVars,
                   scrapeVars, resolveVars>>

NextLists == DedupEvents \/ DedupVideos \/ FilterChart

SpecLists == InitLists /\ [][NextLists]_vars

---------------------------------------------------------------------------
(* Spec: one run of main, from the discovery of best-of artists to the
   merge of the scraped birthdays *)

MaxRows == 2
MaxScraped == 2

UrlSongs == "https://www.udiscovermusic.com/stories/elton-john-in-20-songs/"
UrlFacts == "https://www.udiscovermusic.com/stories/elton-john-facts/"
UrlDio == "https://www.udiscovermusic.com/stories/best-dio-songs/"
UrlEltonPage == "https://www.udiscovermusic.com/artist/elton-john/"
UrlKissPage == "https://www.udiscovermusic.com/artist/kiss/"

NoYear == YearCell("none", 0, FALSE, "")

RowSamples ==
    {Row("Elton John born in Pinner", "Birthday", "", "",
         YearCell("int", 1947, FALSE, ""), DateCell("datetime", 3, 4, "")),
     Row("Elton John In 20 Songs", "Feature", UrlSongs, "...",
         NoYear, DateCell("str", 0, 0, "2024-03-25")),
     Row("Kiss: Gene Simmons is born ", "birthday", Url2, "None",
         YearCell("str", 0, FALSE, "1949"), DateCell("str", 0, 0, "1949-08-25")),
     Row("Best Dio Songs: 20 Essential Tracks", "Feature", UrlDio, "",
         NoYear, DateCell("str", 0, 0, "2024-07-10")),
     Row("Elton John: The Essential Facts", "Anniversary", UrlFacts, Url1,
         YearCell("int", 1970, FALSE, ""), DateCell("datetime", 4, 10, "")),
     Row("Kiss release 'Destroyer'", "Album Release", "", "",
         YearCell("int", 1976, FALSE, ""), DateCell("str", 0, 0, "1976-13-45")),
     Row("Elton John turns 70", "BIRTHDAY", UrlFacts, "",
         YearCell("float", 1950, FALSE, ""), DateCell("datetime", 5, 6, "")),
     Row("Kiss: Paul Stanley's birthday", "Birthday", Url1, "",
         YearCell("str", 0, FALSE, "TBC"), DateCell("str", 0, 0, "2024-01-20"))}

\* results of extract_music_videos()
VideoFiles ==
    {<<>>,
     <<VideoRow("Elton John", "Elton John - Tiny Dancer (Official Video)",
                "yt1", "1,234,567", "1972-02-07", "Release"),
       VideoRow("Dio", "Dio - Holy Diver (HQ)", "yt6", "", "1983-05-25",
                "Release")>>,
     <<VideoRow(" elton john & Kiki Dee ",
                "Don't Go Breaking My Heart  (Live at Wembley) (hd)",
                "yt2", "12x", "1976-06-21T00:00", "Upload"),
       VideoRow("Nobody", "Nothing", "yt3", "5", "1990-01-01", "Release"),
       VideoRow("Kiss", "Kiss - Beth (Lyric Video) - demo (remix)",
                "yt4", "+1_000", "1976-08-99", "Release"),
       VideoRow("Kiss", "Beth", "yt5", "7", "Aug 1976", ""),
       VideoRow("KISS", "Beth (Audio", "yt4", "-3", "1976-08-01", "Release")>>}

PageFiles ==
    {<<>>,
     <<PageRow("Elton John", UrlEltonPage), PageRow(" KISS ", UrlKissPage),
       PageRow("Dio", "n/a")>>}

ScrapedRowSamples ==
    {ScrapedRow("Kiss", "Gene Simmons", UrlKissPage, "1949-08-25"),
     ScrapedRow("Kiss", "Gene Simmons", "", " 1950-01-01"),
     ScrapedRow("Elton John", "", UrlEltonPage, "1948-05-06"),
     ScrapedRow("Kiss", "Kiss", "", "1973-01-30"),
     ScrapedRow("Dio", "", "", "")}

Init ==
    /\ pc = <<"start", 0>>
    /\ RosterInit
    /\ ScrapeIdle
    /\ ResolveIdle
    /\ MatchIdle
    /\ YearIdle
    /\ ListIdle
    /\ sheet \in SeqsUpTo(RowSamples, MaxRows)
    /\ bestof_artists = <<>>
    /\ birthdays = <<>>
    /\ artist_pages = <<>>
    /\ scraped = <<>>
    /\ still_missing = <<>>
    /\ seen_birthdays = {}
    /\ entry = Scraped("", "", "", "")

\* main, line 537
Discover ==
    /\ pc = <<"start", 0>>
    /\ bestof_artists' = discover_bestof_artists(sheet)
    /\ pc' = <<"discovered", 0>>
    /\ UNCHANGED <<rosterVars, matchVars, yearVars, listVars, sheet, birthdays,
                   artist_pages, scraped, still_missing, seen_birthdays, entry,
                   scrapeVars, resolveVars>>

\* main, lines 541-550
ExpandRoster ==
    /\ pc = <<"discovered", 0>>
    /\ LET r == ExpandedRoster(TRACKED_ARTISTS, SHORT_NAMES, bestof_artists) IN
           /\ TRACKED_ARTISTS' = r.TRACKED_ARTISTS
           /\ SHORT_NAMES' = r.SHORT_NAMES
           /\ ARTIST_PATTERNS' = r.ARTIST_PATTERNS
    /\ pc' = <<"extract", 0>>
    /\ UNCHANGED <<matchVars, yearVars, listVars, fusionVars,
                   scrapeVars, resolveVars>>

\* extract_editorial_events: one row of the loop
ExtractRow ==
    /\ pc[1] = "extract"
    /\ pc[2] < Len(sheet)
    /\ LET r == ExtractStep(sheet[pc[2] + 1], events, birthdays) IN
           /\ events' = r.events
           /\ birthdays' = r.birthdays
    /\ pc' = <<"extract", pc[2] + 1>>
    /\ UNCHANGED <<rosterVars, matchVars, yearVars, videos, before, sheet,
                   bestof_artists, artist_pages, scraped, still_missing,
                   seen_birthdays, entry,
                   scrapeVars, resolveVars>>

\* main, line 557
ExtractVideos ==
    /\ pc = <<"extract", Len(sheet)>>
    /\ \E rows \in VideoFiles : videos' = extract_music_videos(rows)
    /\ pc' = <<"videos", 0>>
    /\ UNCHANGED <<rosterVars, matchVars, yearVars, events, before, fusionVars,
                   scrapeVars, resolveVars>>

\* main, lines 561-566
DedupAndFilter ==
    /\ pc = <<"videos", 0>>
    /\ videos' = deduplicate_videos(videos)
    /\ events' = filter_chart_events(deduplicate_events(events),
                                     deduplicate_videos(videos))
    /\ pc' = <<"filtered", 0>>
    /\ UNCHANGED <<rosterVars, matchVars, yearVars, before, fusionVars,
                   scrapeVars, resolveVars>>

\* main, lines 576-579
AttachBestof ==
    /\ pc = <<"filtered", 0>>
    /\ birthdays' = AttachBestofLoop(bestof_artists, 1, birthdays)
    /\ pc' = <<"bestof", 0>>
    /\ UNCHANGED <<rosterVars, matchVars, yearVars, listVars, sheet,
                   bestof_artists, artist_pages, scraped, still_missing,
                   seen_birthdays, entry,
                   scrapeVars, resolveVars>>

\* main, lines 584-614
SecondPass ==
    /\ pc = <<"bestof", 0>>
    /\ birthdays' =
           AttachBestArticles(BestArticles(sheet, 1, DOMAIN birthdays, <<>>),
                              birthdays)
    /\ pc' = <<"second", 0>>
    /\ UNCHANGED <<rosterVars, matchVars, yearVars, listVars, sheet,
                   bestof_artists, artist_pages, scraped, still_missing,
                   seen_birthdays, entry,
                   scrapeVars, resolveVars>>

\* main, lines 618-655
AttachPages ==
    /\ pc = <<"second", 0>>
    /\ \E file \in PageFiles :
           LET pages == load_artist_pages(file) IN
           /\ artist_pages' = pages
           /\ birthdays' = AttachPagesTo(pages, birthdays)
           /\ events' = AttachEventPages(pages, events)
    /\ pc' = <<"pages", 0>>
    /\ UNCHANGED <<rosterVars, matchVars, yearVars, videos, before, sheet,
                   bestof_artists, scraped, still_missing, seen_birthdays,
                   entry,
                   scrapeVars, resolveVars>>

\* main, lines 663-672
LoadScraped ==
    /\ pc = <<"pages", 0>>
    /\ \E file \in SeqsUpTo(ScrapedRowSamples, MaxScraped) :
           LET r == load_scraped_birthdays(file) IN
           /\ scraped' = r.scraped
           /\ still_missing' = r.still_missing
    /\ seen_birthdays' = SeedSeen(birthdays)
    /\ pc' = <<"merge", 0>>
    /\ UNCHANGED <<rosterVars, matchVars, yearVars, listVars, sheet,
                   bestof_artists, birthdays, artist_pages, entry,
                   scrapeVars, resolveVars>>

\* main, lines 675-727: one entry of the loop
MergeScraped ==
    /\ pc[1] = "merge"
    /\ pc[2] < Len(scraped)
    /\ entry' = scraped[pc[2] + 1]
    /\ LET r == MergeStep(scraped[pc[2] + 1], birthdays, seen_birthdays,
                          bestof_artists) IN
           /\ birthdays' = r.birthdays
           /\ seen_birthdays' = r.seen
    /\ pc' = <<"merge", pc[2] + 1>>
    /\ UNCHANGED <<rosterVars, matchVars, yearVars, listVars, sheet,
                   bestof_artists, artist_pages, scraped, still_missing,
                   scrapeVars, resolveVars>>

\* main, lines 732-759: the outputs are written
Finish ==
    /\ pc = <<"merge", Len(scraped)>>
    /\ pc' = <<"done", 0>>
    /\ UNCHANGED <<rosterVars, matchVars, yearVars, listVars, fusionVars,
                   scrapeVars, resolveVars>>

Next ==
    \/ Discover
    \/ ExpandRoster
    \/ ExtractRow
    \/ ExtractVideos
    \/ DedupAndFilter
    \/ AttachBestof
    \/ SecondPass
    \/ AttachPages
    \/ LoadScraped
    \/ MergeScraped
    \/ Finish

Spec == Init /\ [][Next]_vars

---------------------------------------------------------------------------
(* SpecDiscover: discover_bestof_artists applied to sheets of article titles *)

MaxTitles == 3

UrlA == "https://www.udiscovermusic.com/stories/greatest-beach-boys-hits/"
UrlB == "https://www.udiscovermusic.com/stories/best-the-beach-boys-songs/"
UrlC == "https://www.udiscovermusic.com/stories/best-beach-boys-songs/"
UrlD == "https://www.udiscovermusic.com/stories/kiss-in-20-songs/"

NoDate == DateCell("none", 0, 0, "")

TitleSamples ==
    {Row("Greatest Beach Boys Hits", "Feature", UrlA, "", NoYear, NoDate),
     Row("Best The Beach Boys Songs", "Feature", UrlB, "", NoYear, NoDate),
     Row("Best Beach Boys Songs: 20 Essentials", "Feature", UrlC, "", NoYear, NoDate),
     Row("Kiss In 20 Songs", "Feature", UrlD, "", NoYear, NoDate),
     Row("Best Kiss Songs", "Feature", "...", "", NoYear, NoDate)}

InitDiscover ==
    /\ pc = <<"start", 0>>
    /\ RosterInit
    /\ ScrapeIdle
    /\ ResolveIdle
    /\ MatchIdle
    /\ YearIdle
    /\ ListIdle
    /\ sheet \in SeqsUpTo(TitleSamples, MaxTitles)
    /\ bestof_artists = <<>>
    /\ birthdays = <<>>
    /\ artist_pages = <<>>
    /\ scraped = <<>>
    /\ still_missing = <<>>
    /\ seen_birthdays = {}
    /\ entry = Scraped("", "", "", "")

NextDiscover == Discover

SpecDiscover == InitDiscover /\ [][NextDiscover]_vars

---------------------------------------------------------------------------
(* SpecMembers: wikidata_get_members applied to the P527 claims of a group *)

MaxParts == 4

PartSamples ==
    {Part("Q1", FALSE), Part("Q2", TRUE), Part("Q3", FALSE), Part("Q4", TRUE),
     Part("Q5", FALSE), Part("", FALSE)}

InitMembers ==
    /\ pc = <<"members", 0>>
    /\ RosterInit
    /\ ScrapeIdle
    /\ MatchIdle
    /\ YearIdle
    /\ ListIdle
    /\ FusionIdle
    /\ \E parts \in SeqsUpTo(PartSamples, MaxParts) :
           lookup = [Activation("") EXCEPT
                        !.at = "members",
                        !.entity = Some(Entity(<<"Q215380">>, <<>>, parts, None))]
    /\ returned = None
    /\ calls = <<>>

\* find_artist_info, line 222
GetMembers ==
    /\ lookup.at = "members"
    /\ lookup' = [lookup EXCEPT !.member_ids = wikidata_get_members(lookup.entity[1]),
                                !.at = "listed"]
    /\ UNCHANGED <<pc, rosterVars, matchVars, yearVars, listVars, fusionVars,
                   scrapeVars, returned, calls>>

NextMembers == GetMembers

SpecMembers == InitMembers /\ [][NextMembers]_vars

---------------------------------------------------------------------------
(* SpecResolve: one call of find_artist_info against a knowledge base whose
   every request may be answered, answered with nothing, or fail *)

Names == {"Elton John", "Dio", "Kiss", "Prince", "Sade", "Nirvana", "Nobody"}

\* the titles the search gives for a query
KBSearch(q) ==
    CASE q = "Elton John" ->
             <<"Elton John", "Elton John (album)", "Elton John discography",
               "Elton John videography">>
      [] q = "Elton John musician" -> <<"Elton John">>
      [] q = "Dio" -> <<"Dio", "Dio (band)", "Ronnie James Dio", "Holy Diver">>
      [] q = "Dio musician" -> <<"Ronnie James Dio">>
      [] q = "Dio band" -> <<"Dio (band)">>
      [] q = "Kiss band" -> <<"Kiss (band)">>
      [] q = "Prince" -> <<"Prince (musician)">>
      [] q = "Sade" -> <<"Sade (band)", "Sade (singer)">>
      [] q = "Nirvana" -> <<"Nirvana (band)">>
      [] OTHER -> <<>>

\* the wikibase_item of the pages the query for a title gives
KBPages(title) ==
    CASE title = "Elton John" -> <<"Q2808">>
      [] title = "Elton John (album)" -> <<"Q1325660">>
      [] title = "Dio" -> <<"">>
      [] title = "Dio (band)" -> <<"", "Q202550">>
      [] title = "Ronnie James Dio" -> <<"Q103767">>
      [] title = "Kiss (band)" -> <<"Q48989">>
      [] title = "Prince (musician)" -> <<"Q7542">>
      [] title = "Sade (band)" -> <<"Q1621851">>
      [] title = "Sade (singer)" -> <<"Q234089">>
      [] title = "Nirvana (band)" -> <<"Q11649">>
      [] OTHER -> <<>>

Human == <<"Q5">>
Group == <<"Q215380">>

\* the entities the entity data of an id holds
KBEntities(id) ==
    CASE id = "Q2808" ->
             <<Pair(id, Entity(Human, <<"+1947-03-25T00:00:00Z">>, <<>>,
                               Some("Elton John")))>>
      [] id = "Q1325660" ->
             <<Pair("Q898795", Entity(<<"Q482994">>, <<>>, <<>>,
                                      Some("Elton John")))>>
      [] id = "Q202550" ->
             <<Pair(id, Entity(Group, <<>>,
                               <<Part("Q103767", TRUE), Part("Q366584", TRUE),
                                 Part("", FALSE), Part("Q954184", FALSE),
                                 Part("Q1395717", FALSE)>>,
                               Some("Dio")))>>
      [] id = "Q103767" ->
             <<Pair(id, Entity(Human, <<"+1942-07-10T00:00:00Z">>, <<>>,
                               Some("Ronnie James Dio")))>>
      [] id = "Q954184" ->
             <<Pair(id, Entity(Human, <<"+1964-00-00T00:00:00Z">>, <<>>,
                               Some("Craig Goldy")))>>
      [] id = "Q1395717" ->
             <<Pair(id, Entity(Human, <<"+1957-11-20T00:00:00Z">>, <<>>, None))>>
      [] id = "Q48989" ->
             <<Pair(id, Entity(<<"Q5741069", "Q215380">>, <<>>,
                               <<Part("Q310300", FALSE), Part("Q44466", FALSE)>>,
                               Some("Kiss")))>>
      [] id = "Q310300" ->
             <<Pair(id, Entity(Human, <<>>, <<>>, Some("Paul Stanley")))>>
      [] id = "Q44466" ->
             <<Pair(id, Entity(<<>>, <<"+1949-08-25T00:00:00Z">>, <<>>,
                               Some("Gene Simmons")))>>
      [] id = "Q7542" ->
             <<Pair(id, Entity(Human, <<"+1958-00-00T00:00:00Z">>, <<>>,
                               Some("Prince")))>>
      [] id = "Q1621851" ->
             <<Pair(id, Entity(<<"Q16334295">>, <<>>, <<>>, Some("Sade")))>>
      [] id = "Q234089" ->
             <<Pair(id, Entity(Human, <<>>, <<>>, Some("Sade")))>>
      [] id = "Q11649" ->
             <<Pair(id, Entity(Group, <<>>, <<>>, Some("Nirvana")))>>
      [] OTHER -> <<>>

InitResolve ==
    /\ pc = <<"find_artist_info", 0>>
    /\ RosterInit
    /\ ScrapeIdle
    /\ MatchIdle
    /\ YearIdle
    /\ ListIdle
    /\ FusionIdle
    /\ lookup \in {Activation(n) : n \in Names}
    /\ returned = None
    /\ calls = <<>>

restVars ==
    <<pc, rosterVars, matchVars, yearVars, listVars, fusionVars, scrapeVars>>

\* The steps of find_artist_info at the call it is about to make, when
\* wiki_fetch does o: the position and locals after it, the value returned
\* if it returns, and the call as made.
SearchStep(l, o) ==
    LET q == SearchQuery(l.name, l.n)
        r == wiki_search(wiki_fetch(KBSearch(q), <<>>, o))
    IN  [call |-> Call("wiki_search", q, "", FALSE, o, r)] @@ AfterSearch(l, r)

WikidataIdStep(l, o) ==
    LET r == wiki_get_wikidata_id(wiki_fetch(KBPages(Title(l)), <<>>, o))
    IN  [call |-> Call("wiki_get_wikidata_id", Title(l), Title(l), FALSE, o, r)]
            @@ AfterWikidataId(l, r)

EntityStep(l, o) ==
    LET r == wikidata_get_entity(l.wdid, wiki_fetch(KBEntities(l.wdid), <<>>, o))
    IN  [call |-> Call("wikidata_get_entity", l.wdid, Title(l), FALSE, o, r)]
            @@ AfterEntity(l, r)

PageHtmlStep(l, o) ==
    LET r == wiki_get_page_html(wiki_fetch(KBHtml(Title(l)), "", o))
    IN  [call |-> Call("wiki_get_page_html", Title(l), Title(l), FALSE, o, r)]
            @@ AfterPageHtml(l, r)

MemberStep(l, o) ==
    LET id == l.member_ids[l.mid]
        r == wikidata_get_entity(id, wiki_fetch(KBEntities(id), <<>>, o))
    IN  [call |-> Call("wikidata_get_entity", id, Title(l), TRUE, o, r)]
            @@ AfterMember(l, r)

\* the step of the position of l
ResolveStep(l, o) ==
    CASE l.at = "search" -> SearchStep(l, o)
      [] l.at = "wikidata_id" -> WikidataIdStep(l, o)
      [] l.at = "entity" -> EntityStep(l, o)
      [] l.at = "page_html" -> PageHtmlStep(l, o)
      [] l.at = "member" -> MemberStep(l, o)

\* find_artist_info takes the step st
Resolve(st) ==
    /\ lookup' = st.lookup
    /\ returned' = st.returned
    /\ calls' = Append(calls, st.call)

\* find_artist_info, lines 192-198: one of the searches
Search ==
    /\ lookup.at = "search"
    /\ \E o \in Outcomes : Resolve(SearchStep(lookup, o))
    /\ UNCHANGED restVars

\* find_artist_info, lines 200-203: the entity id of the title
GetWikidataId ==
    /\ lookup.at = "wikidata_id"
    /\ \E o \in Outcomes : Resolve(WikidataIdStep(lookup, o))
    /\ UNCHANGED restVars

\* find_artist_info, lines 205-226 and 246-247: the entity of the title
GetEntity ==
    /\ lookup.at = "entity"
    /\ \E o \in Outcomes : Resolve(EntityStep(lookup, o))
    /\ UNCHANGED restVars

\* find_artist_info, lines 213-218 and 248-252: the text of the page
GetPageHtml ==
    /\ lookup.at = "page_html"
    /\ \E o \in Outcomes : Resolve(PageHtmlStep(lookup, o))
    /\ UNCHANGED restVars

\* find_artist_info, lines 227-244: one member of the group
GetMemberEntity ==
    /\ lookup.at = "member"
    /\ \E o \in Outcomes : Resolve(MemberStep(lookup, o))
    /\ UNCHANGED restVars

NextResolve ==
    \/ Search
    \/ GetWikidataId
    \/ GetEntity
    \/ GetPageHtml
    \/ GetMemberEntity

SpecResolve == InitResolve /\ [][NextResolve]_vars

\* every call of the resolver is answered or fails in the end
SpecResolveFair == SpecResolve /\ WF_vars(NextResolve)

---------------------------------------------------------------------------
(* scrape_birthdays.main: the file it reads and the file it writes *)

INPUT_PATH == "artists_missing_birthdays.csv"
OUTPUT_PATH == "artists_missing_birthdays.csv"

\* csv.writer on a field: it is quoted when a character of it needs it
NeedsQuotes(s) ==
    \E i \in 1..Len(s) : Ch(s, i) \in {",", "\"", "\r", "\n"}

\* the quote characters of a quoted field are doubled
RECURSIVE DoubleQuotes(_)
DoubleQuotes(s) ==
    IF s = "" THEN ""
    ELSE (IF Ch(s, 1) = "\"" THEN "\"\"" ELSE Ch(s, 1)) \o DoubleQuotes(Drop(s, 1))

CsvField(s) == IF NeedsQuotes(s) THEN "\"" \o DoubleQuotes(s) \o "\"" ELSE s

\* the fields of a record, each as written, with the delimiter between
RECURSIVE CsvJoin(_)
CsvJoin(fields) ==
    IF Len(fields) = 0 THEN ""
    ELSE IF Len(fields) = 1 THEN CsvField(fields[1])
    ELSE CsvField(fields[1]) \o "," \o CsvJoin(Tail(fields))

\* csv.writer.writerow: the record without its line terminator; a record
\* of one empty field is written quoted
CsvRecord(fields) == IF fields = <<"">> THEN "\"\"" ELSE CsvJoin(fields)

\* csv.reader on one record: q is "start" at the start of a field, "plain"
\* in an unquoted field, "quoted" in a quoted field, "closed" after a quote
\* character met in a quoted field
RECURSIVE CsvParse(_, _, _, _, _)
CsvParse(line, i, cur, q, fields) ==
    IF i > Len(line) THEN Append(fields, cur)
    ELSE LET c == Ch(line, i)
         IN  CASE q = "start" ->
                      IF c = "\"" THEN CsvParse(line, i + 1, "", "quoted", fields)
                      ELSE IF c = ","
                           THEN CsvParse(line, i + 1, "", "start",
                                         Append(fields, ""))
                           ELSE CsvParse(line, i + 1, c, "plain", fields)
               [] q = "plain" ->
                      IF c = ","
                      THEN CsvParse(line, i + 1, "", "start", Append(fields, cur))
                      ELSE CsvParse(line, i + 1, cur \o c, "plain", fields)
               [] q = "quoted" ->
                      IF c = "\"" THEN CsvParse(line, i + 1, cur, "closed", fields)
                      ELSE CsvParse(line, i + 1, cur \o c, "quoted", fields)
               [] q = "closed" ->
                      IF c = "\""
                      THEN CsvParse(line, i + 1, cur \o c, "quoted", fields)
                      ELSE IF c = ","
                           THEN CsvParse(line, i + 1, "", "start",
                                         Append(fields, cur))
                           ELSE CsvParse(line, i + 1, cur \o c, "plain", fields)

\* the fields of a record; an empty line gives no fields
CsvFields(line) == IF line = "" THEN <<>> ELSE CsvParse(line, 1, "", "start", <<>>)

\* the row csv.DictReader makes of a record under the field names: a record
\* shorter than the field names leaves the rest without a value
DictRow(fieldnames, fields) ==
    [k \in {fieldnames[j] : j \in 1..Len(fieldnames)} |->
        LET j == CHOOSE j \in 1..Len(fieldnames) :
                     /\ fieldnames[j] = k
                     /\ \A h \in (j + 1)..Len(fieldnames) : fieldnames[h] # k
        IN  IF j <= Len(fields) THEN fields[j] ELSE ""]

\* csv.DictReader: the first record is the field names, empty lines are
\* skipped
RECURSIVE DictRows(_, _, _)
DictRows(fieldnames, lines, i) ==
    IF i > Len(lines) THEN <<>>
    ELSE IF CsvFields(lines[i]) = <<>> THEN DictRows(fieldnames, lines, i + 1)
    ELSE <<DictRow(fieldnames, CsvFields(lines[i]))>>
             \o DictRows(fieldnames, lines, i + 1)

DictReader(lines) ==
    IF Len(lines) = 0 THEN <<>> ELSE DictRows(CsvFields(lines[1]), lines, 2)

\* the fieldnames of the csv.DictWriter of main
FIELDNAMES ==
    <<"ARTIST NAME", "MEMBER NAME", "ARTIST PAGE URL", "BIRTHDAY (YYYY-MM-DD)">>

\* a row of output_rows
OutputRow(artist_name, member_name, page_url, birthday) ==
    [k \in {FIELDNAMES[j] : j \in 1..4} |->
        CASE k = "ARTIST NAME" -> artist_name
          [] k = "MEMBER NAME" -> member_name
          [] k = "ARTIST PAGE URL" -> page_url
          [] k = "BIRTHDAY (YYYY-MM-DD)" -> birthday]

\* csv.DictWriter: writeheader, then writerow of every row
DictWriter(rows) ==
    <<CsvRecord(FIELDNAMES)>>
        \o [i \in 1..Len(rows) |->
               CsvRecord([j \in 1..4 |-> rows[i][FIELDNAMES[j]]])]

\* artist.get('BIRTHDAY (YYYY-MM-DD)') is true
HasBirthday(artist) ==
    /\ "BIRTHDAY (YYYY-MM-DD)" \in DOMAIN artist
    /\ artist["BIRTHDAY (YYYY-MM-DD)"] # ""

\* the rows of one member each (lines 302-308)
MemberRows(name, page_url, members) ==
    [j \in 1..Len(members) |->
        OutputRow(name, members[j].member, page_url, members[j].birthday)]

\* the rows main appends for what find_artist_info returned (lines 289-320)
ResultRows(name, page_url, members) ==
    IF Len(members) # 0
    THEN IF Len(members) = 1 /\ members[1].member = name
         THEN <<OutputRow(name, name, page_url, members[1].birthday)>>
         ELSE MemberRows(name, page_url, members)
    ELSE <<OutputRow(name, "", page_url, "")>>

---------------------------------------------------------------------------
(* SpecScrape: runs of scrape_birthdays.main, each on the file the run
   before left, against the knowledge base of SpecResolve *)

MaxRuns == 2

\* the files main is run on first: the list of the artists without a
\* birthday, the same list with a column of birthdays, and a file written by
\* an earlier run
InputFiles ==
    {<<"ARTIST NAME,ARTIST PAGE URL",
       "Dio,u/dio",
       "Sade,u/sade">>,
     <<"ARTIST NAME,ARTIST PAGE URL,BIRTHDAY (YYYY-MM-DD)",
       "Elton John,u/elton-john,1947-03-25",
       "",
       "Kiss,u/kiss,",
       "Nobody,,">>,
     <<"ARTIST NAME,MEMBER NAME,ARTIST PAGE URL,BIRTHDAY (YYYY-MM-DD)",
       "Kiss,Gene Simmons,u/kiss,1949-08-25",
       "\"Earth, Wind & Fire\",\"Maurice \"\"Reese\"\" White\",u/ewf,1941-12-19",
       "Prince,,u/prince,">>}

InitScrape ==
    /\ pc = <<"main", 0>>
    /\ RosterInit
    /\ MatchIdle
    /\ YearIdle
    /\ ListIdle
    /\ FusionIdle
    /\ ResolveIdle
    /\ csv_file \in {(INPUT_PATH :> f) : f \in InputFiles}
    /\ artist_rows = <<>>
    /\ output_rows = <<>>
    /\ run = 1
    /\ lookups = <<>>

otherVars == <<rosterVars, matchVars, yearVars, listVars, fusionVars>>

\* main, lines 258-268: the rows of INPUT_PATH
ReadInput ==
    /\ pc = <<"main", 0>>
    /\ artist_rows' = DictReader(csv_file[INPUT_PATH])
    /\ output_rows' = <<>>
    /\ lookups' = <<>>
    /\ pc' = <<"artist", 1>>
    /\ UNCHANGED <<csv_file, run, resolveVars, otherVars>>

\* main, lines 270-283: a row that has a birthday already
KeepRow ==
    /\ pc[1] = "artist"
    /\ pc[2] <= Len(artist_rows)
    /\ HasBirthday(artist_rows[pc[2]])
    /\ LET artist == artist_rows[pc[2]]
           name == artist["ARTIST NAME"]
           page_url == artist["ARTIST PAGE URL"]
       IN  output_rows' =
               Append(output_rows,
                      OutputRow(name, name, page_url,
                                artist["BIRTHDAY (YYYY-MM-DD)"]))
    /\ pc' = <<"artist", pc[2] + 1>>
    /\ UNCHANGED <<csv_file, artist_rows, run, lookups, resolveVars, otherVars>>

\* main, line 287: find_artist_info(name) is entered
CallFindArtistInfo ==
    /\ pc[1] = "artist"
    /\ pc[2] <= Len(artist_rows)
    /\ ~HasBirthday(artist_rows[pc[2]])
    /\ lookup' = Activation(artist_rows[pc[2]]["ARTIST NAME"])
    /\ returned' = None
    /\ calls' = <<>>
    /\ lookups' = Append(lookups, [row |-> pc[2],
                                   name |-> artist_rows[pc[2]]["ARTIST NAME"]])
    /\ pc' = <<"lookup", pc[2]>>
    /\ UNCHANGED <<csv_file, artist_rows, output_rows, run, otherVars>>

\* main, lines 287-322: the rows of what find_artist_info returned
AppendResult ==
    /\ pc[1] = "lookup"
    /\ lookup.at = "returned"
    /\ LET artist == artist_rows[pc[2]]
       IN  output_rows' =
               output_rows \o ResultRows(artist["ARTIST NAME"],
                                         artist["ARTIST PAGE URL"],
                                         returned[1].members)
    /\ lookup' = NoLookup
    /\ returned' = None
    /\ calls' = <<>>
    /\ pc' = <<"artist", pc[2] + 1>>
    /\ UNCHANGED <<csv_file, artist_rows, run, lookups, otherVars>>

\* main, lines 324-331: OUTPUT_PATH is written
WriteOutput ==
    /\ pc[1] = "artist"
    /\ pc[2] > Len(artist_rows)
    /\ csv_file' = (OUTPUT_PATH :> DictWriter(output_rows)) @@ csv_file
    /\ pc' = <<"written", 0>>
    /\ UNCHANGED <<artist_rows, output_rows, run, lookups, resolveVars, otherVars>>

\* the script is run again
Rerun ==
    /\ pc = <<"written", 0>>
    /\ run < MaxRuns
    /\ run' = run + 1
    /\ artist_rows' = <<>>
    /\ output_rows' = <<>>
    /\ lookups' = <<>>
    /\ pc' = <<"main", 0>>
    /\ UNCHANGED <<csv_file, resolveVars, otherVars>>

NextScrape ==
    \/ ReadInput
    \/ KeepRow
    \/ CallFindArtistInfo
    \/ Search
    \/ GetWikidataId
    \/ GetEntity
    \/ GetPageHtml
    \/ GetMemberEntity
    \/ AppendResult
    \/ WriteOutput
    \/ Rerun

SpecScrape == InitScrape /\ [][NextScrape]_vars

---------------------------------------------------------------------------
(* SpecRoster: match_artist on each entry of the built-in roster, in both
   modes *)

InitRoster ==
    /\ pc = <<"compose", 1>>
    /\ RosterInit
    /\ ScrapeIdle
    /\ ResolveIdle
    /\ text \in {BuiltinArtists[i] : i \in DOMAIN BuiltinArtists}
    /\ strict \in BOOLEAN
    /\ matched = None
    /\ YearIdle
    /\ ListIdle
    /\ FusionIdle

NextRoster == MatchArtist

SpecRoster == InitRoster /\ [][NextRoster]_vars

---------------------------------------------------------------------------
(* Properties *)

\* field f is in both entries with one value, or in neither
SameField(old, new, f) ==
    /\ f \in DOMAIN old <=> f \in DOMAIN new
    /\ f \in DOMAIN old => new[f] = old[f]

\* C1: once a birthday entry exists under a key, no later step of the run
\* changes its month, day or birthYear, and a later step only adds fields
\* that were absent; this for any sequence of scraped records.
C1_BirthdaySetOnce ==
    [][\A k \in DOMAIN birthdays :
          /\ k \in DOMAIN birthdays'
          /\ \A f \in DOMAIN birthdays[k] :
                /\ f \in DOMAIN birthdays'[k]
                /\ birthdays'[k][f] = birthdays[k][f]]_vars

\* a scraped entry for a solo key: no member name, or the artist's own
IsSoloEntry(e) == e.memberName = "" \/ e.memberName = e.artistName

\* C2: merging a scraped record for a solo key that already has a birthday
\* leaves the entry's month, day, birthYear, articleUrl and artistPageUrl
\* as they were.
C2_SoloMergeKeepsEntry ==
    [][(/\ pc[1] = "merge"
        /\ pc'[1] = "merge"
        /\ IsSoloEntry(entry')
        /\ entry'.artistName \in DOMAIN birthdays)
       => /\ entry'.artistName \in DOMAIN birthdays'
          /\ \A f \in {"month", "day", "birthYear", "articleUrl", "artistPageUrl"} :
                SameField(birthdays[entry'.artistName],
                          birthdays'[entry'.artistName], f)]_vars

\* a scraped record dated 05-06 was merged for a solo key whose entry, with
\* its article and artist page, is dated 03-04
C2_Witness ==
    /\ pc[1] = "merge"
    /\ pc[2] >= 1
    /\ IsSoloEntry(entry)
    /\ entry.birthday = "1948-05-06"
    /\ entry.artistName \in DOMAIN birthdays
    /\ birthdays[entry.artistName].month = 3
    /\ birthdays[entry.artistName].day = 4
    /\ {"articleUrl", "artistPageUrl"} \subseteq DOMAIN birthdays[entry.artistName]
    /\ <<Lower(entry.memberName), entry.birthday>> \in seen_birthdays

Range(s) == {s[i] : i \in DOMAIN s}

\* out holds, in order, exactly the elements of in whose key no earlier
\* element of in has; keys[i] is the key of in[i]
IsFirstOccurrences(out, in, keys) ==
    LET idx == {i \in DOMAIN in : \A j \in 1..(i - 1) : keys[j] # keys[i]} IN
    /\ Len(out) = Cardinality(idx)
    /\ \A i \in idx : out[Cardinality({j \in idx : j <= i})] = in[i]

\* C3: deduplication is idempotent: deduplicating a deduplicated list of
\* events, or of videos, gives the same list again.
C3_DedupIdempotent ==
    /\ deduplicate_events(deduplicate_events(events)) = deduplicate_events(events)
    /\ deduplicate_videos(deduplicate_videos(videos)) = deduplicate_videos(videos)
    /\ (pc[1] = "events_deduped" => deduplicate_events(events) = events)
    /\ (pc[1] = "videos_deduped" => deduplicate_videos(videos) = videos)

\* duplicates were dropped from the events, and a second pass drops nothing
C3_Witness ==
    /\ pc[1] = "events_deduped"
    /\ Len(events) < Len(before.events)
    /\ deduplicate_events(events) = events

\* C4: deduplicate_events returns, in input order, exactly the first record
\* of each key (artist, month, day, origYear or absent, occasion), so of two
\* records that differ only in name or links the first is kept; likewise
\* deduplicate_videos with the key (artist, month, day, origYear, youtubeId).
C4_FirstOccurrenceKept ==
    /\ IsFirstOccurrences(
           deduplicate_events(events), events,
           [i \in DOMAIN events |->
               <<events[i].artist, events[i].month, events[i].day,
                 events[i].origYear, events[i].occasion>>])
    /\ IsFirstOccurrences(
           deduplicate_videos(videos), videos,
           [i \in DOMAIN videos |->
               <<videos[i].artist, videos[i].month, videos[i].day,
                 videos[i].origYear, videos[i].youtubeId>>])

\* two events of one key, of different names and links, came in; the first
\* was kept
C4_Witness ==
    /\ pc[1] = "events_deduped"
    /\ \E i, j \in DOMAIN before.events :
          /\ i < j
          /\ EventKey(before.events[i]) = EventKey(before.events[j])
          /\ before.events[i].name # before.events[j].name
          /\ DOMAIN before.events[i] # DOMAIN before.events[j]
          /\ before.events[i] \in Range(events)
          /\ before.events[j] \notin Range(events)

NotChart(e) == e.occasion # "Chart"

\* C5: filter_chart_events returns at most as many events as it was given,
\* and the events that are not chart events all remain, unchanged and in
\* the same order.
C5_ChartMonotonic ==
    LET out == filter_chart_events(events, videos) IN
    /\ Len(out) <= Len(events)
    /\ SelectSeq(out, NotChart) = SelectSeq(events, NotChart)

\* a chart event was filtered out of a list that holds another kind of event
C5_Witness ==
    /\ pc[1] = "filtered"
    /\ Len(events) < Len(before.events)
    /\ \E i \in DOMAIN events : NotChart(events[i])
    /\ SelectSeq(events, NotChart) = SelectSeq(before.events, NotChart)

\* the coverage set as the claim words it
C6_Coverage(es, vs) ==
    {<<es[i].artist, extract_title(es[i].name)[1]>> :
        i \in {k \in DOMAIN es :
                  NotChart(es[k]) /\ Truthy(extract_title(es[k].name))}}
        \cup {<<vs[i].artist, Lower(Strip(vs[i].title))>> : i \in DOMAIN vs}

Twice(v) == 2 * v.n + (IF v.half THEN 1 ELSE 0)

\* C7 as stated: 1899 is rejected, "2024" gives 2024, "TBC" and 2027 are
\* rejected, the result is unknown or an integer, and a numeric year is
\* accepted exactly when it lies in [1800, 2026].
C7_Original ==
    pc[1] = "parsed" =>
        /\ (year_val = YearCell("int", 1899, FALSE, "") => year_out = None)
        /\ (year_val = YearCell("str", 0, FALSE, "2024") => year_out = Some(2024))
        /\ (year_val = YearCell("str", 0, FALSE, "TBC") => year_out = None)
        /\ (year_val = YearCell("int", 2027, FALSE, "") => year_out = None)
        /\ (year_out = None \/ (Len(year_out) = 1 /\ year_out[1] \in Int))
        /\ (year_val.t \in {"int", "float"} =>
               (year_out # None <=>
                   2 * YearMin <= Twice(year_val) /\ Twice(year_val) <= 2 * YearMax))

\* C7, amended: parse_year(1899) is 1899, "2024" gives 2024, "TBC" and 2027
\* are rejected, the result is unknown or an integer, and a numeric year y
\* is accepted exactly when 1800 <= y < 2027, as y without its fraction.
C7_ParseYear ==
    pc[1] = "parsed" =>
        /\ (year_val = YearCell("int", 1899, FALSE, "") => year_out = Some(1899))
        /\ (year_val = YearCell("str", 0, FALSE, "2024") => year_out = Some(2024))
        /\ (year_val = YearCell("str", 0, FALSE, "TBC") => year_out = None)
        /\ (year_val = YearCell("int", 2027, FALSE, "") => year_out = None)
        /\ (year_out = None \/ (Len(year_out) = 1 /\ year_out[1] \in Int))
        /\ (year_val.t \in {"int", "float"} =>
               /\ year_out # None <=>
                      /\ 2 * YearMin <= Twice(year_val)
                      /\ Twice(year_val) < 2 * (YearMax + 1)
               /\ year_out # None => Twice(year_val) \in {2 * year_out[1], 2 * year_out[1] + 1})

\* the float 2026.5 was accepted as 2026
C7_Witness ==
    /\ pc[1] = "parsed"
    /\ year_val = YearCell("float", YearMax, TRUE, "")
    /\ year_out = Some(YearMax)

\* C8: in loose mode match_artist("Cold, Cold Heart") is not found and
\* match_artist("Heart released a new album") is "Heart".
C8_LooseHeart ==
    pc[1] = "matched" /\ ~strict =>
        /\ (text = "Cold, Cold Heart" => matched = None)
        /\ (text = "Heart released a new album" => matched = Some("Heart"))

\* C9: in strict mode match_artist("[2024-05-01] Kiss announces tour") is
\* "Kiss" and match_artist("The band Kiss is great") is not found.
C9_StrictKiss ==
    pc[1] = "matched" /\ strict =>
        /\ (text = "[2024-05-01] Kiss announces tour" => matched = Some("Kiss"))
        /\ (text = "The band Kiss is great" => matched = None)

\* the bracket-prefixed text was resolved in strict mode
C9_Witness ==
    /\ pc[1] = "matched"
    /\ strict
    /\ text = "[2024-05-01] Kiss announces tour"
    /\ matched = Some("Kiss")

\* t begins with a bracketed segment, and what follows that segment and the
\* whitespace after it starts with r
AnchoredAfterBracket(t, r) ==
    /\ StartsWith(t, "[")
    /\ \E j \in 2..Len(t) :
          /\ Ch(t, j) = "]"
          /\ \A l \in 2..(j - 1) : Ch(t, l) # "]"
          /\ \E k \in j..Len(t) :
                /\ \A l \in (j + 1)..k : IsSpace(Ch(t, l))
                /\ k + Len(r) <= Len(t)
                /\ SubSeq(t, k + 1, k + Len(r)) = r

C11_EventFields ==
    pc[1] = "extract" =>
        \A i \in DOMAIN events :
            /\ events[i].month \in 1..12
            /\ events[i].day \in 1..31
            /\ events[i].artist \in Range(TRACKED_ARTISTS)

\* the row is read by discover_bestof_artists as an article about an artist
AcceptedTitle(row) ==
    /\ IsArticleLink(Strip(row.feat_link))
    /\ TitleArtist(Strip(row.name)) # None
    /\ ~SkippedArtist(TitleArtist(Strip(row.name))[1].artist)

\* the canonical name of a raw spelling
CanonicalName(artist) ==
    IF HasKey(canonical, artist) THEN Lookup(canonical, artist) ELSE artist

\* the canonical name and the score of an accepted row
TitleCanon(row) == CanonicalName(TitleArtist(Strip(row.name))[1].artist)
TitleScoreOf(row) == TitleArtist(Strip(row.name))[1].score

\* the accepted rows of the highest score among those of canonical name c
TopRows(rows, c) ==
    LET mine == {i \in DOMAIN rows : AcceptedTitle(rows[i]) /\ TitleCanon(rows[i]) = c}
    IN  {i \in mine : \A j \in mine : TitleScoreOf(rows[j]) <= TitleScoreOf(rows[i])}

\* C12: discover_bestof_artists returns, for each canonical name, the URL of
\* the highest-scoring accepted title of that name, and of the first such
\* title in row order when several share that score.
C12_BestFirstPerCanonicalName ==
    pc = <<"discovered", 0>> =>
        LET names == {TitleCanon(sheet[i]) :
                         i \in {j \in DOMAIN sheet : AcceptedTitle(sheet[j])}}
        IN  /\ {bestof_artists[i].key : i \in DOMAIN bestof_artists} = names
            /\ \A c \in names :
                  Lookup(bestof_artists, c)
                      = Strip(sheet[Least(TopRows(sheet, c))].feat_link)

\* C18: a row whose occasion is "birthday" in any case adds no event, leaves
\* every birthday already recorded as it is, and records a new birthday only
\* when the row's year parses.
C18_BirthdayRowFirstWins ==
    [][(/\ pc[1] = "extract"
        /\ pc'[1] = "extract"
        /\ Lower(Strip(sheet[pc[2] + 1].occasion)) = "birthday")
       => /\ events' = events
          /\ \A a \in DOMAIN birthdays :
                a \in DOMAIN birthdays' /\ birthdays'[a] = birthdays[a]
          /\ \A a \in DOMAIN birthdays' \ DOMAIN birthdays :
                parse_year(sheet[pc[2] + 1].year_val) # None]_vars

\* two birthday rows for one artist were read, the second with another date
\* and a year that parses, and the first row's date is the one recorded
C18_Witness ==
    /\ pc = <<"extract", 2>>
    /\ Lower(Strip(sheet[1].occasion)) = "birthday"
    /\ Lower(Strip(sheet[2].occasion)) = "birthday"
    /\ match_artist(Strip(sheet[1].name), TRUE) = Some("Elton John")
    /\ match_artist(Strip(sheet[2].name), TRUE) = Some("Elton John")
    /\ parse_year(sheet[2].year_val) = Some(1950)
    /\ parse_date_value(sheet[2].date_val) = Some([month |-> 5, day |-> 6])
    /\ "Elton John" \in DOMAIN birthdays
    /\ birthdays["Elton John"] = [birthYear |-> 1947, month |-> 3, day |-> 4]
    /\ events = <<>>

\* the keys of the compiled patterns, in their order
PatternKeys == [i \in DOMAIN ARTIST_PATTERNS |-> ARTIST_PATTERNS[i].artist]

\* C19: in main the roster and its patterns change in one step only, the
\* expansion that follows the discovery and precedes every call to
\* match_artist; where the rows and the videos are resolved, the keys of the
\* compiled patterns are the entries of the roster in roster order and the
\* patterns are the ones compiled from the current roster and short names.
C19_PatternsFollowRoster ==
    /\ [][rosterVars' # rosterVars => pc = <<"discovered", 0>>]_vars
    /\ [](pc[1] = "extract" =>
            /\ PatternKeys = TRACKED_ARTISTS
            /\ ARTIST_PATTERNS = build_artist_patterns(TRACKED_ARTISTS, SHORT_NAMES))

\* a record resolved to a discovered artist that the built-in roster lacks
C19_Witness ==
    /\ pc[1] = "videos"
    /\ Len(TRACKED_ARTISTS) > Len(BuiltinArtists)
    /\ \E i \in DOMAIN videos : videos[i].artist \notin Range(BuiltinArtists)

\* the ids of the P527 claims of the group that have one, without (has_end
\* FALSE) or with (has_end TRUE) a P582 qualifier, in claim order
MembersWithEnd(has_end) ==
    LET of == SelectSeq(lookup.entity[1].P527,
                        LAMBDA c : c.id # "" /\ c.has_end = has_end)
    IN  [i \in DOMAIN of |-> of[i].id]

ResultOf(st) == <<st.lookup, st.returned>>

\* what a function of the knowledge base gives when there is nothing
EmptyResult(fn) == IF fn = "wiki_get_page_html" THEN "" ELSE None

\* the call made last
LastCall == calls[Len(calls)]

\* C13: whatever the requests of find_artist_info do (answer, answer with
\* nothing, fail), no exception leaves it; a call whose request failed gives
\* what it gives for an empty answer and the resolver goes on exactly as
\* after an empty answer; and the resolver ends by returning a list of
\* members (possibly empty) with a note.
C13_FailureIsEmptyResult ==
    /\ [](lookup.at # "raised")
    /\ [](\A i \in DOMAIN calls :
              calls[i].outcome = "fail" =>
                  /\ ~calls[i].result.raised
                  /\ calls[i].result.value = EmptyResult(calls[i].fn))
    /\ [][(Len(calls') = Len(calls) + 1 /\ calls'[Len(calls')].outcome = "fail")
            => <<lookup', returned'>> = ResultOf(ResolveStep(lookup, "empty"))]_vars
    /\ <>(/\ lookup.at = "returned"
          /\ returned # None
          /\ returned[1].note # "")

\* a resolution that found a birthday at a later title after the fetch of
\* the entity of an earlier one failed
C13_Witness ==
    /\ lookup.at = "returned"
    /\ returned[1].members # <<>>
    /\ \E i \in DOMAIN calls :
           calls[i].fn = "wikidata_get_entity" /\ calls[i].outcome = "fail"

\* the structured birth date of an entity lacks, or lacks its month or day
NoFullDate(e) ==
    \/ e.P569 = <<>>
    \/ SubSeq(e.P569[1], 7, 8) = "00"
    \/ SubSeq(e.P569[1], 10, 11) = "00"

\* call number i fetched the entity of a title and the entity is a human
HumanCandidate(i) ==
    /\ calls[i].fn = "wikidata_get_entity"
    /\ ~calls[i].member
    /\ calls[i].result.value # None
    /\ \E k \in DOMAIN calls[i].result.value[1].P31 :
           calls[i].result.value[1].P31[k] = "Q5"

\* C14: once the entity of a title is a human, no later title is examined.
\* With a full structured birth date the resolver returns at once the one
\* pair of the queried name and that date, noted "solo"; without one
\* (absent, or month or day 00) its only further call is the page text of
\* the same title, after which it returns the pair with the scraped date,
\* noted "solo", or an empty list noted "solo, no date".
C14_HumanEndsResolution ==
    \A i \in DOMAIN calls :
        HumanCandidate(i) =>
            LET e == calls[i].result.value[1]
                t == calls[i].title
                solo(d) == Some([members |-> <<Member(lookup.name, d)>>,
                                 note |-> "solo (" \o t \o ")"])
            IN  IF ~NoFullDate(e)
                THEN /\ Len(calls) = i
                     /\ lookup.at = "returned"
                     /\ returned = solo(SubSeq(e.P569[1], 2, 11))
                ELSE \/ Len(calls) = i /\ lookup.at = "page_html"
                     \/ /\ Len(calls) = i + 1
                        /\ calls[i + 1].fn = "wiki_get_page_html"
                        /\ calls[i + 1].arg = t
                        /\ lookup.at = "returned"
                        /\ LET html == calls[i + 1].result.value IN
                           IF html # "" /\ extract_birthday_from_html(html) # None
                           THEN returned = solo(extract_birthday_from_html(html)[1])
                           ELSE returned = Some([members |-> <<>>,
                                     note |-> "solo, no date (" \o t \o ")"])

\* a human found at the first of several titles, the resolution over
C14_Witness ==
    /\ lookup.at = "returned"
    /\ lookup.tried < Len(Candidates(lookup))
    /\ HumanCandidate(Len(calls))
    /\ returned[1].members # <<>>

\* call number i fetched the entity of a member of a group and the entity is
\* a human
HumanMember(i) ==
    /\ calls[i].fn = "wikidata_get_entity"
    /\ calls[i].member
    /\ calls[i].result.value # None
    /\ \E k \in DOMAIN calls[i].result.value[1].P31 :
           calls[i].result.value[1].P31[k] = "Q5"

\* C15: a member of a group that is a human without a full structured birth
\* date is not passed over at once: the call that follows the fetch of the
\* member's entity asks for a page text, as it does for a solo human.
C15_MemberFallback ==
    \A i \in DOMAIN calls :
        (HumanMember(i) /\ NoFullDate(calls[i].result.value[1])) =>
            IF Len(calls) = i
            THEN lookup.at = "page_html"
            ELSE calls[i + 1].fn = "wiki_get_page_html"

\* the calls of calls made by function fn, in order
CallsOf(fn) == SelectSeq(calls, LAMBDA c : c.fn = fn)

\* the suffixes of the three searches, in order
SearchSuffixes == <<"", " musician", " band">>

\* C17: the searches are the first calls, at most 3, for the name, the name
\* with " musician" and the name with " band" in this order, each made only
\* after every earlier one gave nothing; when all three gave nothing the
\* resolver returns an empty list noted "no Wikipedia page" with no other
\* call made; and the titles examined are, in order, among the first 3 of
\* the one search that gave titles.
C17_SearchOrder ==
    LET searches == CallsOf("wiki_search")
        ids == CallsOf("wiki_get_wikidata_id")
        n == Len(searches)
    IN  /\ n <= 3
        /\ \A i \in 1..n :
               /\ calls[i] = searches[i]
               /\ calls[i].arg = lookup.name \o SearchSuffixes[i]
               /\ i < n => calls[i].result.value = <<>>
        /\ (n = 3 /\ searches[3].result.value = <<>>) =>
               /\ Len(calls) = 3
               /\ lookup.at = "returned"
               /\ returned = Some([members |-> <<>>, note |-> "no Wikipedia page"])
        /\ Len(calls) > n => searches[n].result.value # <<>>
        /\ Len(ids) <= 3
        /\ \A k \in DOMAIN ids : ids[k].arg = searches[n].result.value[k]
        /\ \A i \in (n + 1)..Len(calls) :
               \E k \in DOMAIN ids : calls[i].title = ids[k].arg
        /\ (lookup.at # "search" /\ Len(calls) >= 1
                /\ calls[1].result.value # <<>>) => n = 1

\* the third search gave the one title, which was examined, after the first
\* two gave nothing
C17_Witness ==
    /\ lookup.at = "returned"
    /\ Len(CallsOf("wiki_search")) = 3
    /\ Len(CallsOf("wiki_get_wikidata_id")) = 1
    /\ returned[1].note = "band, no member birthdays (Kiss (band))"


\* the rows of the file at OUTPUT_PATH
WrittenRows == DictReader(csv_file[OUTPUT_PATH])

\* C20: a run of the scraper on the file an earlier run wrote reads the
\* file it is going to write, and for every row read that carries a
\* birthday it makes no lookup and writes a row with the same artist name,
\* member name, page URL and birthday.
C20_RerunKeepsRows ==
    (run >= 2 /\ pc = <<"written", 0>>) =>
        /\ csv_file[INPUT_PATH] = DictWriter(output_rows)
        /\ \A i \in DOMAIN artist_rows :
               HasBirthday(artist_rows[i]) =>
                   /\ \A j \in DOMAIN lookups : lookups[j].row # i
                   /\ \E j \in DOMAIN WrittenRows :
                          WrittenRows[j] = artist_rows[i]


\* C21: every entry of the roster resolves to itself, in loose mode and in
\* strict mode: no entry is shadowed by an earlier entry that is a prefix
\* or a part of it.
C21_RosterEntryResolvesToItself ==
    (/\ pc[1] = "matched"
     /\ \E i \in DOMAIN TRACKED_ARTISTS : TRACKED_ARTISTS[i] = text)
        => matched = Some(text)


\* the entity has one of the types
HasType(e, types) == \E k \in DOMAIN e.P31 : e.P31[k] \in types

\* call number i fetched the entity of a title, which is a group and not a
\* human
GroupCandidate(i) ==
    /\ calls[i].fn = "wikidata_get_entity"
    /\ ~calls[i].member
    /\ calls[i].result.value # None
    /\ ~HasType(calls[i].result.value[1], {"Q5"})
    /\ HasType(calls[i].result.value[1],
               {"Q215380", "Q2088357", "Q5741069", "Q4438121"})

\* the page of title t gave no entity id, or its entity could not be fetched
Unresolvable(t) ==
    \E i \in DOMAIN calls :
        /\ calls[i].fn \in {"wiki_get_wikidata_id", "wikidata_get_entity"}
        /\ ~calls[i].member
        /\ calls[i].title = t
        /\ calls[i].result.value = None

\* the entity of title t is neither a human nor a group, it has no full
\* structured birth date, and the text of the page then fetched gave no date
UnknownWithoutDate(t) ==
    \E i \in DOMAIN calls :
        /\ calls[i].fn = "wikidata_get_entity"
        /\ ~calls[i].member
        /\ calls[i].title = t
        /\ calls[i].result.value # None
        /\ ~HasType(calls[i].result.value[1],
                    {"Q5", "Q215380", "Q2088357", "Q5741069", "Q4438121"})
        /\ NoFullDate(calls[i].result.value[1])
        /\ i < Len(calls)
        /\ calls[i + 1].fn = "wiki_get_page_html"
        /\ calls[i + 1].title = t
        /\ PageBirthdays[calls[i + 1].result.value] = None

\* the resolver returned the note of the exhausted candidates
NoDateInAnyResult ==
    /\ lookup.at = "returned"
    /\ returned[1].note = "no date in any result"

\* C22: a candidate is followed by the next one only when its page has no
\* entity id, its entity cannot be fetched, or its entity is of unknown type
\* and no birth date was found for it; once the entity of a candidate is a
\* group every later call is for a member of that candidate and the
\* resolver returns with a note of that group, also when it found nothing;
\* and "no date in any result" is returned only when every candidate
\* examined was unresolvable or of unknown type.
C22_NextCandidateOnlyWhenUnresolved ==
    /\ \A k \in 1..Len(Candidates(lookup)) :
           (k < lookup.tried \/ NoDateInAnyResult) =>
               \/ Unresolvable(lookup.results[k])
               \/ UnknownWithoutDate(lookup.results[k])
    /\ \A i \in DOMAIN calls :
           GroupCandidate(i) =>
               /\ \A j \in (i + 1)..Len(calls) :
                      /\ calls[j].member
                      /\ calls[j].title = calls[i].title
               /\ lookup.tried <= Len(lookup.results)
               /\ lookup.results[lookup.tried] = calls[i].title
               /\ lookup.at = "returned" =>
                      /\ StartsWith(returned[1].note, "band")
                      /\ (returned[1].members = <<>> =>
                              returned[1].note \in
                                  {"band, no members listed ("
                                       \o calls[i].title \o ")",
                                   "band, no member birthdays ("
                                       \o calls[i].title \o ")"})

\* the first candidate had no entity id, the second was a group none of
\* whose members gave a birthday, and the resolver returned there with a
\* third candidate left unexamined
C22_Witness ==
    /\ lookup.at = "returned"
    /\ returned[1].members = <<>>
    /\ lookup.tried = 2
    /\ Len(Candidates(lookup)) = 3
    /\ Unresolvable(lookup.results[1])
    /\ \E i \in DOMAIN calls :
           GroupCandidate(i) /\ calls[i].title = lookup.results[2]
    /\ returned[1].note =
           "band, no member birthdays (" \o lookup.results[2] \o ")"

===========================================================================
